---- MODULE Spec2Model ----
(***************************************************************************)
(* A model of the Coroutine monad of src/src/coroutine.ts.                 *)
(*                                                                         *)
(* A Coroutine is a closure in the source.  Here it is the term that       *)
(* built the closure (a record tagged by `op`), and `invoke` is the        *)
(* operator that runs the closure's body on a state.  The functions a      *)
(* program hands to the library (the bodies of compute/transform, the      *)
(* functions given to map and bind) are named by records tagged by `fn`,   *)
(* and `call` runs their body.  Every value is a record, so that any two   *)
(* values can be compared: numbers are [vt |-> "number", n |-> 3].         *)
(*                                                                         *)
(* An invocation runs in a world: the variables outside the library that   *)
(* the program's functions touch (the counter of the test suite), and a    *)
(* journal of what happened during the invocation (which functions were    *)
(* called, which constructors yielded a failure).  The journal is the      *)
(* observer's notebook: no operator of the library reads it.               *)
(***************************************************************************)
EXTENDS Integers, Sequences, FiniteSets, TLC

\* ------------------------------------------------------------------------
\* Bounds of the model
\* ------------------------------------------------------------------------
MaxDrives == 3
MaxTicks == 2
MaxState == 1
MaxCount == 3

\* the numbers of the test suite
RepeatCount == 10
LoopLimit == 16
RetryCount == 10
FailingAttempts == 5
RaceTicksA == 5
RaceTicksB == 3

\* ------------------------------------------------------------------------
\* Values
\* ------------------------------------------------------------------------
Unit == [vt |-> "unit"]

undefined == [vt |-> "undefined"]

Num(k) == [vt |-> "number", n |-> k]

NaN == [vt |-> "NaN"]

IsNum(x) == "vt" \in DOMAIN x /\ x.vt = "number"

IsList(x) == "vt" \in DOMAIN x /\ x.vt = "List"

Str(t) == [vt |-> "string", s |-> t]

Bool(t) == [vt |-> "boolean", b |-> t]

\* a native Error object; its message is a sequence of string fragments
Error(msg) == [vt |-> "Error", message |-> msg]

ListOf(xs) == [vt |-> "List", items |-> xs]

\* String(v), as `"..." + v` computes it in unsafeRun
JsString(v) ==
  CASE "vt" \notin DOMAIN v -> <<"[object Object]">>
    [] v.vt = "string" -> <<v.s>>
    [] v.vt = "number" -> <<ToString(v.n)>>
    [] v.vt = "boolean" -> <<IF v.b THEN "true" ELSE "false">>
    [] v.vt = "undefined" -> <<"undefined">>
    [] v.vt = "Error" -> IF v.message = <<>> THEN <<"Error">> ELSE <<"Error: ">> \o v.message
    [] v.vt = "List" -> <<"List [ ... ]">>
    [] OTHER -> <<"[object Object]">>

Pair(x, y) == [fst |-> x, snd |-> y]

left(x) == [kind |-> "left", value |-> x]

right(x) == [kind |-> "right", value |-> x]

\* ------------------------------------------------------------------------
\* Coroutine terms: the constructors
\* ------------------------------------------------------------------------
succeed(a) == [op |-> "succeed", a |-> a]

suspend == [op |-> "suspend"]

fail(e) == [op |-> "fail", e |-> e]

compute(f) == [op |-> "compute", f |-> f]

transform(f) == [op |-> "transform", f |-> f]

effect(f) == compute([fn |-> "effect", f |-> f])

map_Coroutine(f, c1) == [op |-> "map", f |-> f, c1 |-> c1]

join_Coroutine(nested) == [op |-> "join", nested |-> nested]

\* bind that suspends between the coroutine and the function
bind_Coroutine_pausing(f, c) ==
  join_Coroutine(map_Coroutine(f,
    join_Coroutine(map_Coroutine([fn |-> "pause"], c))))

bind_Coroutine(f, c) == join_Coroutine(map_Coroutine(f, c))

\* the methods of the Coroutine object that are one-liners over bind and map
\* zip that runs the second effect first
zip_tail_first(self, tail) == bind_Coroutine([fn |-> "zip_k", tail |-> self], tail)

zip(self, tail) == bind_Coroutine([fn |-> "zip_k", tail |-> tail], self)

suspending(self) == bind_Coroutine([fn |-> "suspending_k"], self)

unit(self) == map_Coroutine([fn |-> "unit_f"], self)

orElse(attempting, alternative) == [op |-> "orElse", attempting |-> attempting, alternative |-> alternative]

wait_late(ticks) ==
  IF ticks <= 1 THEN succeed(Unit)
  ELSE bind_Coroutine([fn |-> "wait_k", ticks |-> ticks], suspend)

wait(ticks) ==
  IF ticks <= 0 THEN succeed(Unit)
  ELSE bind_Coroutine([fn |-> "wait_k", ticks |-> ticks], suspend)

race(fst, snd) == [op |-> "race", fst |-> fst, snd |-> snd]

\* repeat that stops one execution short
repeat_short(count, procedure) ==
  IF count <= 1 THEN succeed(Unit)
  ELSE bind_Coroutine([fn |-> "repeat_k", count |-> count, procedure |-> procedure], procedure)

repeat(count, procedure) ==
  IF count <= 0 THEN succeed(Unit)
  ELSE bind_Coroutine([fn |-> "repeat_k", count |-> count, procedure |-> procedure], procedure)

repeatWhile(p, procedure) == [op |-> "repeatWhile", p |-> p, procedure |-> procedure]

repeatUntil(p, procedure) == [op |-> "repeatUntil", p |-> p, procedure |-> procedure]

collectWhile(p, procedure) == [op |-> "collectWhile", p |-> p, procedure |-> procedure]

collectUntil(p, procedure) == [op |-> "collectUntil", p |-> p, procedure |-> procedure]

\* Coroutine.retry(count): the coroutine is attempted again on a failure,
\* `count` more times at most
retry(count, attempting) == [op |-> "retry", count |-> count, attempting |-> attempting]

\* sequence(l), lines 282-300, for the list l of coroutines
sequence(l) == [op |-> "sequence", l |-> l]

\* forEach(l)(f), lines 305-306, for the list l of values
forEach(l, f) == [op |-> "forEach", l |-> l, f |-> f]

\* Option, either.ts lines 45-64 (reading the value of None gives Unit)
None == [kind |-> "none", value |-> Unit]

Some(value) == [kind |-> "some", value |-> value]

\* fromOption, lines 272-274

fromOption(opt) == IF opt.kind = "none" THEN fail(Unit) ELSE succeed(opt.value)

\* fromEither that fails as fromOption does, with {}
fromEither_unit(either) == IF either.kind = "left" THEN fail(Unit) ELSE succeed(either.value)

\* fromEither, lines 276-278
fromEither(either) == IF either.kind = "left" THEN fail(either.value) ELSE succeed(either.value)

\* Coroutine.inParallelWith(other): both run, one step each per drive
inParallelWith(fst, snd) == [op |-> "inParallelWith", fst |-> fst, snd |-> snd]

\* `throw new Error(...)` in the body of a coroutine: invoking it raises
raise(e) == [op |-> "throw", e |-> e]

\* ------------------------------------------------------------------------
\* The world of an invocation, and what an invocation hands back
\* ------------------------------------------------------------------------
World0 == [counter |-> 0, journal |-> <<>>]

Note(w, entry) == [w EXCEPT !.journal = Append(@, entry)]

Called(f) == [ev |-> "call", f |-> f]

Yielded(e) == [ev |-> "failed", e |-> e]

Paused == [ev |-> "suspended"]

\* a function returned v / threw v, leaving the world w
Returned(v, w) == [ok |-> TRUE, v |-> v, w |-> w]

Threw(v, w) == [ok |-> FALSE, v |-> v, w |-> w]

\* an invocation returned the Either res / raised res.value, leaving the world w
Ret(res, w) == [res |-> res, w |-> w]

Raised(e, w) == [res |-> [kind |-> "throw", value |-> e], w |-> w]

IsCompleted(res) == res.kind = "right"

IsFailed(res) == res.kind = "left" /\ res.value.kind = "left"

IsSuspended(res) == res.kind = "left" /\ res.value.kind = "right"

IsThrown(res) == res.kind = "throw"

\* List.of(value).concat(list), lines 390 and 398: value goes in front
concat_behind(value, list) == ListOf((IF IsList(list) THEN list.items ELSE <<list>>) \o <<value>>)

concat(value, list) == ListOf(<<value>> \o (IF IsList(list) THEN list.items ELSE <<list>>))

\* ------------------------------------------------------------------------
\* The functions of a program.  call(f, x, w) runs the body of the function
\* named f on the argument x in the world w.
\*   functions of the state, for compute / transform / the predicates:
\*     inc      s => s + 1                  (test compute, collectUntil)
\*     double   s => s * 2                  (examples/wait.ts)
\*     boom     s => { throw new Error() }  (test computeError)
\*     count    () => { numericVar++ }      (test repeat)
\*     incBelow s => { if (s >= k) throw new Error("limit"); return s + 1 }
\*     geq, leq s => s >= k, s => s <= k    (test collectUntil, collectWhile)
\*     countGeq () => numericVar >= k       (test repeatUntil)
\*     countLeq () => numericVar <= k       (test repeatWhile)
\*     flaky    () => { numericVar++; if (numericVar <= k) throw new
\*                      Error("BOOM" + numericVar); return "" + numericVar }
\*                                          (test retry; the test's message
\*                                           is "BOOM" at every attempt)
\*     hopeless () => { numericVar++; throw new Error("BOOM" + numericVar) }
\*                                          (test retryJustError)
\*   functions of a value, for map and bind:
\*     box      a => [a]
\*     keep     a => succeed(a)
\*     const    () => c
\*     pause    a => suspend().map(() => a)
\*     step     a => transform(s => s + 1).map(s => Pair(a, s))
\*     then     x => f(x).bind(g)
\*     succeedDouble  n => succeed(n * 2)   (README, forEach)
\*   the closures the library itself builds are named after their builder.
\* ------------------------------------------------------------------------
RECURSIVE body(_, _, _)
body(f, x, w) ==
  CASE f.fn = "inc" -> Returned(IF IsNum(x) THEN Num(x.n + 1) ELSE NaN, w)
    [] f.fn = "double" -> Returned(IF IsNum(x) THEN Num(x.n * 2) ELSE NaN, w)
    [] f.fn = "boom" -> Threw(Error(<<>>), w)
    [] f.fn = "incBelow" ->
         IF IsNum(x) /\ x.n >= f.n THEN Threw(Error(<<"limit">>), w)
         ELSE Returned(IF IsNum(x) THEN Num(x.n + 1) ELSE NaN, w)
    [] f.fn = "count" -> Returned(undefined, [w EXCEPT !.counter = @ + 1])
    [] f.fn = "geq" -> Returned(Bool(IsNum(x) /\ x.n >= f.n), w)
    [] f.fn = "leq" -> Returned(Bool(IsNum(x) /\ x.n <= f.n), w)
    [] f.fn = "countGeq" -> Returned(Bool(w.counter >= f.n), w)
    [] f.fn = "countLeq" -> Returned(Bool(w.counter <= f.n), w)
    [] f.fn = "flaky" ->
         LET numericVar == w.counter + 1
             w1 == [w EXCEPT !.counter = numericVar]
         IN  IF numericVar <= f.n THEN Threw(Error(<<"BOOM", ToString(numericVar)>>), w1)
             ELSE Returned(Str(ToString(numericVar)), w1)
    [] f.fn = "hopeless" ->
         LET numericVar == w.counter + 1
         IN  Threw(Error(<<"BOOM", ToString(numericVar)>>), [w EXCEPT !.counter = numericVar])
    [] f.fn = "box" -> Returned(ListOf(<<x>>), w)
    [] f.fn = "keep" -> Returned(succeed(x), w)
    [] f.fn = "const" -> Returned(f.c, w)
    [] f.fn = "succeedDouble" -> Returned(succeed(IF IsNum(x) THEN Num(x.n * 2) ELSE NaN), w)
    [] f.fn = "always" -> Returned(f.a, w)
    [] f.fn = "pause" -> Returned(map_Coroutine([fn |-> "always", a |-> x], suspend), w)
    [] f.fn = "pairWith" -> Returned(Pair(f.a, x), w)
    [] f.fn = "step" -> Returned(map_Coroutine([fn |-> "pairWith", a |-> x], transform([fn |-> "inc"])), w)
    [] f.fn = "then" ->
         LET r == body(f.f, x, Note(w, Called(f.f)))
         IN  IF r.ok THEN Returned(bind_Coroutine(f.g, r.v), r.w) ELSE r
    \* effect, line 242: s => f({})
    [] f.fn = "effect" -> body(f.f, Unit, Note(w, Called(f.f)))
    \* Coroutine.unit, line 132: a => ({})
    [] f.fn = "unit_f" -> Returned(Unit, w)
    \* Coroutine.suspending, line 128: a => suspend()
    [] f.fn = "suspending_k" -> Returned(suspend, w)
    \* Coroutine.zip, line 124: a => tail.bind(a1 => succeed(Pair(a, a1)))
    [] f.fn = "zip_k" -> Returned(bind_Coroutine([fn |-> "zip_k1", a |-> x], f.tail), w)
    [] f.fn = "zip_k1" -> Returned(succeed(Pair(f.a, x)), w)
    \* wait, line 328: () => wait(ticks - 1)
    [] f.fn = "wait_k" -> Returned(wait(f.ticks - 1), w)
    \* repeat, line 373: () => repeat(count - 1, procedure)
    [] f.fn = "repeat_k" -> Returned(repeat(f.count - 1, f.procedure), w)
    \* repeatWhile / repeatUntil, lines 378, 383
    [] f.fn = "repeatWhile_k" -> Returned(repeatWhile(f.p, f.procedure), w)
    [] f.fn = "repeatUntil_k" -> Returned(repeatUntil(f.p, f.procedure), w)
    \* collectWhile / collectUntil, lines 389-390, 397-398
    [] f.fn = "collectWhile_k" ->
         Returned(map_Coroutine([fn |-> "cons", value |-> x], collectWhile(f.p, f.procedure)), w)
    [] f.fn = "collectUntil_k" ->
         Returned(map_Coroutine([fn |-> "cons", value |-> x], collectUntil(f.p, f.procedure)), w)
    \* list => List.of(value).concat(list)
    [] f.fn = "cons" -> Returned(concat(f.value, x), w)

\* a call of f, written down in the journal
call(f, x, w) == body(f, x, Note(w, Called(f)))

\* ------------------------------------------------------------------------
\* invoke: the bodies of the coroutines
\* ------------------------------------------------------------------------
succeed_invoke(a, state, w) == Ret(right(Pair(a, state)), w)

\* suspend that keeps in numericVar whether it has suspended, and suspends
\* once
suspend_invoke_once(state, w) ==
  IF w.counter = 0
  THEN Ret(left(right(Pair(state, succeed(Unit)))), Note([w EXCEPT !.counter = 1], Paused))
  ELSE Ret(right(Pair(Unit, state)), w)

\* suspend whose continuation puts the snapshot back as the state
suspend_invoke_restoring(state, w) ==
  Ret(left(right(Pair(state, transform([fn |-> "always", a |-> state])))), Note(w, Paused))

suspend_invoke(state, w) == Ret(left(right(Pair(state, succeed(Unit)))), Note(w, Paused))

fail_invoke(e, w) == Ret(left(left(e)), Note(w, Yielded(e)))

\* transform that completes with the state it was given as the value
transform_invoke_old_value(f, state, w) ==
  LET r == call(f, state, w)
  IN  IF r.ok THEN Ret(right(Pair(state, r.v)), r.w)
      ELSE Ret(left(left(r.v)), Note(r.w, Yielded(r.v)))

transform_invoke(f, state, w) ==
  LET r == call(f, state, w)
  IN  IF r.ok THEN Ret(right(Pair(r.v, r.v)), r.w)
      ELSE Ret(left(left(r.v)), Note(r.w, Yielded(r.v)))

\* compute that lets the exception of f through
compute_invoke_uncaught(f, state, w) ==
  LET r == call(f, state, w)
  IN  IF r.ok THEN Ret(right(Pair(r.v, state)), r.w)
      ELSE Raised(r.v, r.w)

compute_invoke(f, state, w) ==
  LET r == call(f, state, w)
  IN  IF r.ok THEN Ret(right(Pair(r.v, state)), r.w)
      ELSE Ret(left(left(r.v)), Note(r.w, Yielded(r.v)))

\* map_Coroutine that leaves the continuation as it is
map_Coroutine_unpushed(f, processState) ==
  LET res == processState.res
      w == processState.w
  IN  IF IsThrown(res) THEN processState
      ELSE IF res.kind = "left"
      THEN IF res.value.kind = "left"
           THEN Ret(left(left(res.value.value)), w)
           ELSE Ret(left(right(res.value.value)), w)
      ELSE LET computedValue == res.value
               r == call(f, computedValue.fst, w)
           IN  IF r.ok THEN Ret(right(Pair(r.v, computedValue.snd)), r.w)
               ELSE Raised(r.v, r.w)

\* map_Coroutine, lines 143-175.  map_Pair(f, g) of pair.ts maps a pair to
\* Pair(f(fst), g(snd)); pair.ts reaches the function of a Func through the
\* member `f`, which func.ts names `invoke`.  One of the two is identity in
\* both uses; the other is map_Coroutine(f), which builds a coroutine, or
\* the function given to map, whose call is journalled and may throw.
map_Coroutine_invoke(f, processState) ==
  LET res == processState.res
      w == processState.w
  IN  IF IsThrown(res) THEN processState
      ELSE IF res.kind = "left"
      THEN IF res.value.kind = "left"
           THEN Ret(left(left(res.value.value)), w)
           ELSE LET suspensionValue == res.value.value
                IN  Ret(left(right(Pair(suspensionValue.fst,
                                        map_Coroutine(f, suspensionValue.snd)))), w)
      ELSE LET computedValue == res.value
               r == call(f, computedValue.fst, w)
           IN  IF r.ok THEN Ret(right(Pair(r.v, computedValue.snd)), r.w)
               ELSE Raised(r.v, r.w)

\* the state join_Coroutine invokes the inner coroutine with (line 209)
stateOfCoroutine(computedValue, state) == computedValue.snd

\* join_Coroutine that completes with the state the nested coroutine left
join_Coroutine_forgets(nested, processState, nextResult) ==
  LET res == processState.res
      w == processState.w
  IN  IF IsThrown(res) THEN processState
      ELSE IF res.kind = "left"
      THEN IF res.value.kind = "left"
           THEN Ret(left(left(res.value.value)), w)
           ELSE LET continuation == res.value.value
                IN  Ret(left(right(Pair(continuation.fst,
                                        join_Coroutine(continuation.snd)))), w)
      ELSE IF IsCompleted(nextResult.res)
           THEN Ret(right(Pair(nextResult.res.value.fst, res.value.snd)), nextResult.w)
           ELSE nextResult

\* join_Coroutine that does not join the continuation
join_Coroutine_flat(nested, processState, nextResult) ==
  LET res == processState.res
      w == processState.w
  IN  IF IsThrown(res) THEN processState
      ELSE IF res.kind = "left"
      THEN IF res.value.kind = "left"
           THEN Ret(left(left(res.value.value)), w)
           ELSE Ret(left(right(res.value.value)), w)
      ELSE nextResult

\* join_Coroutine, given the outcome of the nested coroutine and, when that
\* is a result, the outcome nextResult of `next.invoke(stateOfCoroutine)`
join_Coroutine_invoke(nested, processState, nextResult) ==
  LET res == processState.res
      w == processState.w
  IN  IF IsThrown(res) THEN processState
      ELSE IF res.kind = "left"
      THEN IF res.value.kind = "left"
           THEN Ret(left(left(res.value.value)), w)
           ELSE LET continuation == res.value.value
                IN  Ret(left(right(Pair(continuation.fst,
                                        join_Coroutine(continuation.snd)))), w)
      ELSE nextResult

\* orElse that returns whatever the attempt yielded
orElse_returns_always(result) == TRUE

\* orElse that takes a suspension of the attempt for a failure
orElse_returns_completed(result) == result.kind # "left"

\* orElse, line 314: the attempt's outcome is returned as it is
orElse_returns(result) == result.kind # "left" \/ result.value.kind = "right"

\* retry: a failed attempt is followed by another while attempts are left
retry_again(count, result) == count > 0 /\ IsFailed(result)

\* race that looks for a winner before it looks at the failure of snd
race_invoke_winner_first(fst, snd, firstResult, secondResult) ==
  IF firstResult.kind = "left" /\ firstResult.value.kind = "left"
  THEN fail(firstResult.value.value)
  ELSE IF firstResult.kind = "right"
  THEN succeed(left(firstResult.value.fst))
  ELSE IF secondResult.kind = "left" /\ secondResult.value.kind = "left"
  THEN fail(secondResult.value.value)
  ELSE IF secondResult.kind = "right"
  THEN succeed(right(secondResult.value.fst))
  ELSE race(firstResult.value.value.snd, secondResult.value.value.snd)

\* race that tags the value of snd as it tags the value of fst
race_invoke_one_tag(fst, snd, firstResult, secondResult) ==
  IF firstResult.kind = "left" /\ firstResult.value.kind = "left"
  THEN fail(firstResult.value.value)
  ELSE IF secondResult.kind = "left" /\ secondResult.value.kind = "left"
  THEN fail(secondResult.value.value)
  ELSE IF firstResult.kind = "right"
  THEN succeed(left(firstResult.value.fst))
  ELSE IF secondResult.kind = "right"
  THEN succeed(left(secondResult.value.fst))
  ELSE race(firstResult.value.value.snd, secondResult.value.value.snd)

\* race that lets snd win when both are done
race_invoke_tie_second(fst, snd, firstResult, secondResult) ==
  IF firstResult.kind = "left" /\ firstResult.value.kind = "left"
  THEN fail(firstResult.value.value)
  ELSE IF secondResult.kind = "left" /\ secondResult.value.kind = "left"
  THEN fail(secondResult.value.value)
  ELSE IF secondResult.kind = "right"
  THEN succeed(right(secondResult.value.fst))
  ELSE IF firstResult.kind = "right"
  THEN succeed(left(firstResult.value.fst))
  ELSE race(firstResult.value.value.snd, secondResult.value.value.snd)

\* the branches of race that does not look for a failure of the second side
race_branch_unchecked(firstResult, secondResult) ==
  IF firstResult.kind = "left" /\ firstResult.value.kind = "left"
  THEN "first has failed"
  ELSE IF firstResult.kind = "right" /\ secondResult.kind = "left"
  THEN "only the first one is done"
  ELSE IF firstResult.kind = "left" /\ secondResult.kind = "right"
  THEN "only the second one is done"
  ELSE IF firstResult.kind = "right" /\ secondResult.kind = "right"
  THEN "both are done"
  ELSE IF firstResult.kind = "left" /\ secondResult.kind = "left"
          /\ firstResult.value.kind = "right" /\ secondResult.value.kind = "right"
  THEN "both are suspended"
  ELSE IF firstResult.kind = "left" /\ secondResult.kind = "left"
          /\ firstResult.value.kind = "right"
  THEN "only the first is suspended"
  ELSE "UnsupportedOperation"

\* race, lines 334-366: the branch taken, named by the comment the code has
\* on it, for the outcome of fst and (unless fst failed) of snd
race_branch(firstResult, secondResult) ==
  IF firstResult.kind = "left" /\ firstResult.value.kind = "left"
  THEN "first has failed"
  ELSE IF secondResult.kind = "left" /\ secondResult.value.kind = "left"
  THEN "second has failed"
  ELSE IF firstResult.kind = "right" /\ secondResult.kind = "left"
  THEN "only the first one is done"
  ELSE IF firstResult.kind = "left" /\ secondResult.kind = "right"
  THEN "only the second one is done"
  ELSE IF firstResult.kind = "right" /\ secondResult.kind = "right"
  THEN "both are done"
  ELSE IF firstResult.kind = "left" /\ secondResult.kind = "left"
          /\ firstResult.value.kind = "right" /\ secondResult.value.kind = "right"
  THEN "both are suspended"
  ELSE IF firstResult.kind = "left" /\ secondResult.kind = "left"
          /\ firstResult.value.kind = "right"
  THEN "only the first is suspended"
  ELSE IF firstResult.kind = "left" /\ secondResult.kind = "left"
          /\ secondResult.value.kind = "right"
  THEN "only the second is suspended"
  ELSE "UnsupportedOperation"

\* race that completes with the state its winner completed with
race_invoke_winner_state(fst, snd, firstResult, secondResult) ==
  IF firstResult.kind = "left" /\ firstResult.value.kind = "left"
  THEN fail(firstResult.value.value)
  ELSE IF secondResult.kind = "left" /\ secondResult.value.kind = "left"
  THEN fail(secondResult.value.value)
  ELSE IF firstResult.kind = "right"
  THEN bind_Coroutine([fn |-> "const", c |-> succeed(left(firstResult.value.fst))],
                      transform([fn |-> "always", a |-> firstResult.value.snd]))
  ELSE IF secondResult.kind = "right"
  THEN bind_Coroutine([fn |-> "const", c |-> succeed(right(secondResult.value.fst))],
                      transform([fn |-> "always", a |-> secondResult.value.snd]))
  ELSE race(firstResult.value.value.snd, secondResult.value.value.snd)

\* race that yields Suspended when both sides are suspended, and goes on
\* with their continuations on the next drive
race_invoke_yielding(fst, snd, firstResult, secondResult) ==
  IF firstResult.kind = "left" /\ firstResult.value.kind = "left"
  THEN fail(firstResult.value.value)
  ELSE IF secondResult.kind = "left" /\ secondResult.value.kind = "left"
  THEN fail(secondResult.value.value)
  ELSE IF firstResult.kind = "right"
  THEN succeed(left(firstResult.value.fst))
  ELSE IF secondResult.kind = "right"
  THEN succeed(right(secondResult.value.fst))
  ELSE bind_Coroutine([fn |-> "const",
                       c |-> race(firstResult.value.value.snd, secondResult.value.value.snd)],
                      suspend)

\* race, lines 334-366: the coroutine whose invocation race returns, given
\* the outcome of fst and (unless fst failed) of snd
race_invoke(fst, snd, firstResult, secondResult) ==
  LET branch == race_branch(firstResult, secondResult)
  IN  CASE branch = "first has failed" -> fail(firstResult.value.value)
        [] branch = "second has failed" -> fail(secondResult.value.value)
        [] branch = "only the first one is done" -> succeed(left(firstResult.value.fst))
        [] branch = "only the second one is done" -> succeed(right(secondResult.value.fst))
        [] branch = "both are done" -> succeed(left(firstResult.value.fst))
        [] branch = "both are suspended" ->
             race(firstResult.value.value.snd, secondResult.value.value.snd)
        [] branch = "only the first is suspended" -> race(firstResult.value.value.snd, snd)
        [] branch = "only the second is suspended" -> race(fst, secondResult.value.value.snd)
        [] OTHER -> raise(Error(<<"UnsupportedOperation">>))

\* inParallelWith that is done as soon as one side is
inParallelWith_invoke_either(firstResult, secondResult) ==
  IF IsFailed(firstResult) THEN fail(firstResult.value.value)
  ELSE IF IsFailed(secondResult) THEN fail(secondResult.value.value)
  ELSE IF IsCompleted(firstResult) /\ IsCompleted(secondResult)
  THEN succeed(Pair(firstResult.value.fst, secondResult.value.fst))
  ELSE IF IsCompleted(firstResult) THEN succeed(Pair(firstResult.value.fst, Unit))
  ELSE IF IsCompleted(secondResult) THEN succeed(Pair(Unit, secondResult.value.fst))
  ELSE bind_Coroutine([fn |-> "const",
                       c |-> inParallelWith(firstResult.value.value.snd, secondResult.value.value.snd)],
                      suspend)

\* inParallelWith: the coroutine whose invocation it returns, given the
\* outcomes of one step of each side.  A failure ends the pair; with both
\* sides completed the pair completes; otherwise the pair suspends, and goes
\* on with the continuation of a suspended side and the value of a
\* completed one.
inParallelWith_invoke(firstResult, secondResult) ==
  IF IsFailed(firstResult) THEN fail(firstResult.value.value)
  ELSE IF IsFailed(secondResult) THEN fail(secondResult.value.value)
  ELSE IF IsCompleted(firstResult) /\ IsCompleted(secondResult)
  THEN succeed(Pair(firstResult.value.fst, secondResult.value.fst))
  ELSE bind_Coroutine([fn |-> "const",
                       c |-> inParallelWith(
                               IF IsCompleted(firstResult) THEN succeed(firstResult.value.fst)
                               ELSE firstResult.value.value.snd,
                               IF IsCompleted(secondResult) THEN succeed(secondResult.value.fst)
                               ELSE secondResult.value.value.snd)],
                      suspend)

\* repeatWhile .. collectUntil, lines 378-399: the coroutine whose invocation
\* the loop returns, given what p(state) returned
\* repeatWhile that executes the procedure once and is done
repeatWhile_once(p, procedure, holds) ==
  IF ~holds THEN succeed(Unit)
  ELSE bind_Coroutine([fn |-> "const", c |-> succeed(Unit)], procedure)

\* repeatWhile that suspends after every execution of the procedure
repeatWhile_pausing(p, procedure, holds) ==
  IF ~holds THEN succeed(Unit)
  ELSE bind_Coroutine([fn |-> "repeatWhile_k", p |-> p, procedure |-> procedure],
                      suspending(procedure))

repeatWhile_invoke(p, procedure, holds) ==
  IF ~holds THEN succeed(Unit)
  ELSE bind_Coroutine([fn |-> "repeatWhile_k", p |-> p, procedure |-> procedure], procedure)

repeatUntil_invoke(p, procedure, holds) ==
  IF holds THEN succeed(Unit)
  ELSE bind_Coroutine([fn |-> "repeatUntil_k", p |-> p, procedure |-> procedure], procedure)

collectWhile_invoke(p, procedure, holds) ==
  IF ~holds THEN succeed(ListOf(<<>>))
  ELSE bind_Coroutine([fn |-> "collectWhile_k", p |-> p, procedure |-> procedure], procedure)

collectUntil_invoke(p, procedure, holds) ==
  IF holds THEN succeed(ListOf(<<>>))
  ELSE bind_Coroutine([fn |-> "collectUntil_k", p |-> p, procedure |-> procedure], procedure)

loop_invoke(c, holds) ==
  CASE c.op = "repeatWhile" -> repeatWhile_invoke(c.p, c.procedure, holds)
    [] c.op = "repeatUntil" -> repeatUntil_invoke(c.p, c.procedure, holds)
    [] c.op = "collectWhile" -> collectWhile_invoke(c.p, c.procedure, holds)
    [] c.op = "collectUntil" -> collectUntil_invoke(c.p, c.procedure, holds)

\* `x.invoke(...)` on a value that is not a coroutine
NotAFunction == Error(<<"TypeError: invoke is not a function">>)

IsCoroutine(c) == "op" \in DOMAIN c

\* List.push of immutable: a new List with value at its end; the List it is
\* called on stays as it is
push(list, value) == ListOf(list.items \o <<value>>)

\* line 288, `results.push(effectResult.value.fst)` as a statement: the List
\* that push returns is dropped, results is what it was
sequence_results(results, pushed) == results

\* sequence, lines 284-299, standing in its loop before element i of l
sequence_loop(l, i, results) == [op |-> "sequence_loop", l |-> l, i |-> i, results |-> results]

\* sequence that goes on with the next element after a failed one
sequence_invoke_continuing(l, i, results, effectResult) ==
  IF effectResult.kind = "right" \/ effectResult.value.kind = "left"
  THEN sequence_loop(l, i + 1, results)
  ELSE raise(Error(<<"TODO">>))

\* sequence, lines 286-297: how the loop goes on after element i yielded
\* effectResult: with the next element, with the invocation of fail(e) that
\* is returned, or with `throw new Error("TODO")`
sequence_invoke(l, i, results, effectResult) ==
  IF effectResult.kind = "right"
  THEN sequence_loop(l, i + 1, sequence_results(results, push(results, effectResult.value.fst)))
  ELSE IF effectResult.value.kind = "left"
  THEN fail(effectResult.value.value)
  ELSE raise(Error(<<"TODO">>))

\* forEach, line 306, standing in l.map((v, k) => f(v)) before element i
\* of l, with the coroutines that f returned so far
forEach_loop(l, f, i, mapped) ==
  [op |-> "forEach_loop", l |-> l, f |-> f, i |-> i, mapped |-> mapped]

\* forEach, line 306: how l.map goes on after the call of f on element i:
\* with the next element, or with what f threw
forEach_map(l, f, i, mapped, called) ==
  IF called.ok THEN forEach_loop(l, f, i + 1, Append(mapped, called.v))
  ELSE raise(called.v)

RECURSIVE invoke(_, _, _)
invoke(c, state, w) ==
  CASE ~IsCoroutine(c) -> Raised(NotAFunction, w)
    [] c.op = "succeed" -> succeed_invoke(c.a, state, w)
    [] c.op = "suspend" -> suspend_invoke(state, w)
    [] c.op = "fail" -> fail_invoke(c.e, w)
    [] c.op = "throw" -> Raised(c.e, w)
    [] c.op = "transform" -> transform_invoke(c.f, state, w)
    [] c.op = "compute" -> compute_invoke(c.f, state, w)
    [] c.op = "map" -> map_Coroutine_invoke(c.f, invoke(c.c1, state, w))
    [] c.op = "join" ->
         LET processState == invoke(c.nested, state, w)
             computedValue == processState.res.value
         IN  join_Coroutine_invoke(c.nested, processState,
               IF IsCompleted(processState.res)
               THEN invoke(computedValue.fst, stateOfCoroutine(computedValue, state), processState.w)
               ELSE processState)
    [] c.op = "orElse" ->
         LET attempt == invoke(c.attempting, state, w)
         IN  IF IsThrown(attempt.res) \/ orElse_returns(attempt.res) THEN attempt
             ELSE invoke(c.alternative, state, attempt.w)
    [] c.op = "retry" ->
         LET attempt == invoke(c.attempting, state, w)
         IN  IF IsThrown(attempt.res) \/ ~retry_again(c.count, attempt.res) THEN attempt
             ELSE invoke(retry(c.count - 1, c.attempting), state, attempt.w)
    [] c.op = "sequence" -> invoke(sequence_loop(c.l, 1, ListOf(<<>>)), state, w)
    [] c.op = "sequence_loop" ->
         IF c.i > Len(c.l) THEN invoke(succeed(c.results), state, w)
         ELSE LET r == invoke(c.l[c.i], state, w)
              IN  IF IsThrown(r.res) THEN r
                  ELSE invoke(sequence_invoke(c.l, c.i, c.results, r.res), state, r.w)
    [] c.op = "forEach" -> invoke(forEach_loop(c.l, c.f, 1, <<>>), state, w)
    [] c.op = "forEach_loop" ->
         IF c.i > Len(c.l) THEN invoke(sequence(c.mapped), state, w)
         ELSE LET called == call(c.f, c.l[c.i], w)
              IN  invoke(forEach_map(c.l, c.f, c.i, c.mapped, called), state, called.w)
    [] c.op = "inParallelWith" ->
         LET first == invoke(c.fst, state, w)
             second == invoke(c.snd, state, first.w)
         IN  IF IsThrown(first.res) THEN first
             ELSE IF IsThrown(second.res) THEN second
             ELSE invoke(inParallelWith_invoke(first.res, second.res), state, second.w)
    [] c.op = "race" ->
         LET first == invoke(c.fst, state, w)
             second == invoke(c.snd, state, first.w)
         IN  IF IsThrown(first.res) THEN first
             ELSE IF IsFailed(first.res)
             THEN invoke(race_invoke(c.fst, c.snd, first.res, first.res), state, first.w)
             ELSE IF IsThrown(second.res) THEN second
             ELSE invoke(race_invoke(c.fst, c.snd, first.res, second.res), state, second.w)
    [] c.op \in {"repeatWhile", "repeatUntil", "collectWhile", "collectUntil"} ->
         LET r == call(c.p, state, w)
         IN  IF ~r.ok THEN Raised(r.v, r.w)
             ELSE invoke(loop_invoke(c, r.v.b), state, r.w)

\* unsafeRun that throws the error as it is
unsafeRun_rethrows(coroutine, s, w) ==
  LET r == invoke(coroutine, s, w)
      result == r.res
  IN  IF IsThrown(result) THEN r
      ELSE IF result.kind = "right" THEN Ret(right(result.value), r.w)
      ELSE IF result.value.kind = "left"
      THEN Raised(result.value.value, r.w)
      ELSE Ret(left(result.value.value.snd), r.w)

\* unsafeRun, lines 402-413.  The world is the caller's: a raised Error
\* leaves what the invocation did to it in place.
unsafeRun(coroutine, s, w) ==
  LET r == invoke(coroutine, s, w)
      result == r.res
  IN  IF IsThrown(result) THEN r
      ELSE IF result.kind = "right" THEN Ret(right(result.value), r.w)
      ELSE IF result.value.kind = "left"
      THEN Raised(Error(<<"Coroutine failed with: ">> \o JsString(result.value.value)), r.w)
      ELSE Ret(left(result.value.value.snd), r.w)

\* unsafeRunGetValue that hands back what unsafeRun returned, a continuation
\* included
unsafeRunGetValue_continues(ran) ==
  IF IsThrown(ran.res) THEN Threw(ran.res.value, ran.w)
  ELSE Returned(ran.res.value, ran.w)

\* unsafeRunGetValue, runtime.ts lines 23-27, after `let result =
\* unsafeRun(coroutine, s)` has left ran: the Pair unsafeRun returned on the
\* right, an Error without a message when it returned a continuation on the
\* left; what unsafeRun raised goes on to the caller
unsafeRunGetValue_result(ran) ==
  IF IsThrown(ran.res) THEN Threw(ran.res.value, ran.w)
  ELSE IF ran.res.kind = "left" THEN Threw(Error(<<>>), ran.w)
  ELSE Returned(ran.res.value, ran.w)

\* unsafeRunGetValue, runtime.ts lines 21-28
unsafeRunGetValue(coroutine, s, w) == unsafeRunGetValue_result(unsafeRun(coroutine, s, w))

\* ------------------------------------------------------------------------
\* The programs that are driven
\* ------------------------------------------------------------------------
inc == [fn |-> "inc"]

double == [fn |-> "double"]

boom == [fn |-> "boom"]

keep == [fn |-> "keep"]

const(c) == [fn |-> "const", c |-> c]

\* the states a driver passes
States == {Num(k) : k \in 0..MaxState}

\* an experiment: the programs built from m, f, g, a, n that are driven side
\* by side, each in a world of its own, with the same states
Experiment(law, m, f, g, a, n) == [law |-> law, m |-> m, f |-> f, g |-> g, a |-> a, n |-> n]

pause == [fn |-> "pause"]

step == [fn |-> "step"]

box == [fn |-> "box"]

always(a) == [fn |-> "always", a |-> a]

then(f, g) == [fn |-> "then", f |-> f, g |-> g]

incBelow(k) == [fn |-> "incBelow", n |-> k]

geq(k) == [fn |-> "geq", n |-> k]

leq(k) == [fn |-> "leq", n |-> k]

count == [fn |-> "count"]

countGeq(k) == [fn |-> "countGeq", n |-> k]

countLeq(k) == [fn |-> "countLeq", n |-> k]

\* the effects the laws are tried on: every constructor, alone and around a
\* suspension point (the last one has the shape of examples/wait.ts)
Effects ==
  { succeed(Num(1)), fail(Str("boom")), suspend,
    compute(inc), compute(boom), transform(inc), transform(boom),
    wait(2), suspending(transform(double)),
    bind_Coroutine(const(transform(inc)), wait(1)),
    zip(wait(1), transform(inc)),
    repeatUntil(geq(2), suspending(transform(inc))) }

\* the functions given to bind
Kleislis ==
  { keep, pause, step, const(fail(Str("late"))), const(transform(double)), const(compute(boom)) }

\* the functions given to map
Mappers == { box, always(Num(7)) }

\* programs in which some component fails, built with map, bind, zip, repeat,
\* repeatWhile, repeatUntil, collectWhile, collectUntil and race only
Failing ==
  { map_Coroutine(box, fail(Str("boom"))),
    map_Coroutine(box, compute(boom)),
    bind_Coroutine(const(fail(Str("late"))), transform(inc)),
    bind_Coroutine(const(transform(inc)), fail(Str("boom"))),
    bind_Coroutine(const(compute(boom)), wait(1)),
    zip(transform(inc), fail(Str("boom"))),
    zip(compute(boom), transform(inc)),
    zip(suspending(transform(inc)), transform(incBelow(1))),
    repeat(3, transform(incBelow(1))),
    repeatWhile(leq(5), transform(incBelow(1))),
    repeatUntil(geq(5), transform(incBelow(1))),
    collectWhile(leq(5), transform(incBelow(1))),
    collectUntil(geq(5), transform(incBelow(1))),
    collectUntil(geq(5), bind_Coroutine(const(transform(incBelow(1))), suspend)),
    race(transform(inc), fail(Str("boom"))),
    race(fail(Str("boom")), transform(inc)),
    race(fail(Str("first")), fail(Str("second"))),
    race(suspend, compute(boom)),
    race(bind_Coroutine(const(fail(Str("late"))), wait(1)), wait(2)) }

\* programs of the same combinators in which nothing fails
Passing ==
  { compute(inc), compute(double), effect(count),
    transform(inc), transform(double),
    bind_Coroutine(const(compute(double)), transform(inc)),
    zip(transform(inc), compute(double)),
    repeat(2, transform(inc)),
    repeatUntil(geq(2), transform(inc)),
    collectUntil(geq(3), transform(inc)),
    collectWhile(leq(1), suspending(transform(inc))),
    race(bind_Coroutine(const(succeed(Str("A"))), wait(2)),
         bind_Coroutine(const(succeed(Str("B"))), wait(1))) }

\* programs that recover from a failure
Recovering ==
  { orElse(fail(Str("boom")), transform(inc)),
    orElse(compute(boom), succeed(Num(0))),
    orElse(bind_Coroutine(const(fail(Str("late"))), suspend), succeed(Num(0))) }

\* a procedure that counts its executions, alone and after a step of the state
counting == effect(count)

stepping == bind_Coroutine(const(effect(count)), transform(inc))

\* the loops around a procedure that suspends
Pausing ==
  { repeat(2, suspending(counting)),
    repeatUntil(countGeq(2), suspending(counting)),
    repeatWhile(leq(1), suspending(transform(inc))),
    collectUntil(geq(2), suspending(transform(inc))) }

\* effects lifted from an Option and from an Either, alone and combined
Lifted ==
  { fromOption(Some(Num(7))), fromOption(None),
    fromEither(right(Num(3))), fromEither(left(Str("e"))),
    bind_Coroutine(const(fromEither(right(Num(3)))), fromOption(Some(Num(7)))),
    zip(fromEither(right(Num(3))), map_Coroutine(box, fromOption(Some(Num(7))))),
    repeat(2, fromOption(None)),
    collectUntil(geq(1), bind_Coroutine(const(fromEither(right(Num(3)))), transform(inc))) }

RunExperiments ==
  {Experiment("run", m, keep, keep, Unit, 0) :
     m \in Failing \cup Passing \cup Recovering \cup Pausing \cup Lifted
            \cup {compute(boom), transform(boom), fail(Str("boom"))}}

WaitExperiments == {Experiment("wait", suspend, keep, keep, Unit, n) : n \in (0 - 1)..MaxTicks}

AssocExperiments == {Experiment("assoc", m, f, g, Unit, 0) : m \in Effects, f \in Kleislis, g \in Kleislis}

LeftIdExperiments == {Experiment("leftId", suspend, f, keep, a, 0) : f \in Kleislis, a \in {Unit, Num(1)}}

BindExperiments == {Experiment("bind", m, f, keep, Unit, 0) : m \in Effects, f \in Kleislis}

MapExperiments == {Experiment("map", m, f, keep, Unit, 0) : m \in Effects, f \in Mappers}

Counts == ((0 - 1)..MaxCount)

\* test repeat: effect(() => { numericVar++ }).repeat(10)
RepeatExperiments ==
  {Experiment("repeat", m, keep, keep, Unit, n) :
     m \in {counting, stepping}, n \in Counts \cup {RepeatCount}}

\* tests repeatWhile and repeatUntil, whose predicate reads the counter, and
\* the same loops with a predicate of the state
LoopExperiments ==
  {Experiment("repeatWhile", stepping, leq(k), keep, Unit, k) : k \in Counts}
    \cup {Experiment("repeatUntil", stepping, geq(k), keep, Unit, k) : k \in Counts}
    \cup {Experiment("repeatWhile", counting, countLeq(k), keep, Unit, k) : k \in Counts \cup {LoopLimit}}
    \cup {Experiment("repeatUntil", counting, countGeq(k), keep, Unit, k) : k \in Counts \cup {LoopLimit}}

\* tests collectUntil and collectWhile, and the same loops over a procedure
\* whose value is not its state
doubling == map_Coroutine(double, transform(inc))

CollectExperiments ==
  {Experiment("collectUntil", m, geq(k), keep, Unit, k) :
     m \in {transform(inc), doubling}, k \in Counts}
    \cup {Experiment("collectWhile", m, leq(k), keep, Unit, k) :
            m \in {transform(inc), doubling}, k \in Counts}

\* tests retry and retryJustError: an effect that fails on its first k
\* attempts, and one that fails on every attempt
flaky(k) == [fn |-> "flaky", n |-> k]

hopeless == [fn |-> "hopeless"]

RetryExperiments ==
  {Experiment("retry", effect(f), f, keep, Unit, n) :
     f \in {flaky(k) : k \in (0..MaxCount) \cup {FailingAttempts}} \cup {hopeless},
     n \in Counts \cup {RetryCount}}

\* orElse, beside its primary and its alternative on their own.  The primaries
\* are the effects of the laws and effects that fail after a step of the
\* state or after a suspension; the alternatives count their invocations and
\* read the state they are invoked with.
Primaries ==
  Effects \cup
    { bind_Coroutine(const(fail(Str("late"))), transform(inc)),
      bind_Coroutine(const(compute(boom)), transform(inc)),
      bind_Coroutine(const(fail(Str("late"))), suspend) }

Alternatives ==
  { bind_Coroutine(const(compute(double)), counting),
    bind_Coroutine(const(fail(Str("alt"))), counting),
    bind_Coroutine(const(suspending(transform(double))), counting) }

OrElseExperiments ==
  {Experiment("orElse", m, keep, keep, alt, 0) : m \in Primaries, alt \in Alternatives}
    \cup {Experiment("orElse", fromOption(None), keep, keep,
                       bind_Coroutine(const(fromEither(right(Num(3)))), counting), 0)}

\* zip beside its first effect on its own; the second effect is one of the
\* alternatives above
ZipExperiments ==
  {Experiment("zip", m, keep, keep, other, 0) :
     m \in Primaries, other \in Alternatives \cup {bind_Coroutine(const(transform(double)), counting)}}

\* test raceAgainst: wait(5).bind(() => succeed("A")) against
\* wait(3).bind(() => succeed("B")), and the same with fewer ticks; race
\* beside its two sides on their own
after(ticks, name) == bind_Coroutine(const(succeed(Str(name))), wait(ticks))

\* a side that fails after so many ticks
failing(ticks, name) == bind_Coroutine(const(fail(Str(name))), wait(ticks))

RaceExperiments ==
  {Experiment("race", fst, keep, keep, snd, 0) :
     fst \in {after(i, "A") : i \in (0..MaxTicks) \cup {RaceTicksA}}
              \cup {failing(i, "fa") : i \in 0..1},
     snd \in {after(j, "B") : j \in (0..MaxTicks) \cup {RaceTicksB}}
              \cup {failing(j, "fb") : j \in 0..1}}

\* a side that steps the state, suspends, and then reads the state
stepThenRead == bind_Coroutine(const(compute(double)), suspending(transform(inc)))

RaceStateExperiments ==
  { Experiment("raceState", stepThenRead, keep, keep, after(2, "B"), 0),
    Experiment("raceState", after(2, "A"), keep, keep, stepThenRead, 0) }

\* sides whose steps show in the journal: each step but the last calls f
stepsOf(f, n) == repeat(n, suspending(compute(f)))

RaceStepsExperiments ==
  {Experiment("raceSteps", stepsOf(inc, i), keep, keep, stepsOf(double, j), 0) : i \in 1..2, j \in 1..2}

\* test inParallelWith: wait(5).bind(() => succeed("A")) in parallel with
\* wait(3).bind(() => succeed("B")), the same with fewer ticks and with sides
\* that fail; the pair beside its two sides on their own
ParallelExperiments ==
  {Experiment("inParallelWith", fst, keep, keep, snd, 0) :
     fst \in {after(i, "A") : i \in (0..MaxTicks) \cup {RaceTicksA}}
              \cup {failing(i, "fa") : i \in 0..1},
     snd \in {after(j, "B") : j \in (0..MaxTicks) \cup {RaceTicksB}}
              \cup {failing(j, "fb") : j \in 0..1}}

\* README, Interruptions: p1.suspending().bind(() => p2).suspending()
\* .bind(() => p3)
interruptions(p1, p2, p3) ==
  bind_Coroutine(const(p3), suspending(bind_Coroutine(const(p2), suspending(p1))))

\* three effects that show in the journal, in every order
Prints == {compute(inc), compute(double), counting}

InterruptionExperiments ==
  {Experiment("interruptions", interruptions(p1, p2, p3), keep, keep, [steps |-> <<p1, p2, p3>>], 0) :
     p1 \in Prints, p2 \in Prints, p3 \in Prints}

\* README, forEach: forEach(List.of(1, 2, 3, 4))(number => double(number)),
\* shorter lists, and functions whose coroutines succeed, fail or suspend
succeedDouble == [fn |-> "succeedDouble"]

Lists == { <<>>, <<Num(1)>>, <<Num(2), Num(1)>>, <<Num(1), Num(2), Num(3), Num(4)>> }

ForEachExperiments ==
  {Experiment("forEach", forEach(l, f), f, keep, ListOf(l), 0) :
     l \in Lists, f \in {succeedDouble, keep, const(fail(Str("no"))), pause, const(counting), step}}

\* sequence over lists of up to MaxElements coroutines that step the state,
\* read it (and fail when it is 1 or more), count, fail or suspend; beside
\* the sequence, every element on its own
MaxElements == 3

Elements ==
  { transform(inc), compute(incBelow(1)), counting, fail(Str("no")), suspend }

ElementLists ==
  UNION {[1..n -> Elements] : n \in 0..MaxElements}

SequenceExperiments ==
  {Experiment("sequence", sequence(l), keep, keep, ListOf(l), 0) : l \in ElementLists}

\* tests succeed, effect, transform and compute: unsafeRunGetValue on an
\* effect, beside unsafeRun on the same effect with the same state
GetValueExperiments ==
  {Experiment("getValue", m, keep, keep, Unit, 0) :
     m \in Effects \cup Lifted \cup {succeed(Num(10)), compute(double), counting, raise(Error(<<"thrown">>))}}

\* tests fromEitherLeft and fromEitherRight: fromEither(left().invoke(
\* "Error!")), fromEither(right().invoke(1)), and other values on each side
Eithers ==
  { left(Str("Error!")), left(Error(<<"e">>)), left(Num(0)),
    right(Num(1)), right(Str("v")), right(Unit) }

FromEitherExperiments ==
  {Experiment("fromEither", fromEither(either), keep, keep, either, 0) : either \in Eithers}

\* a step of the state, a suspension, and then an effect that reads the state
ResumeExperiments ==
  {Experiment("resume", bind_Coroutine(const(q), suspending(transform(inc))), keep, keep, q, 0) :
     q \in {compute(double), transform(double), compute(inc)}}

\* bind chains of three effects, with or without a suspension after the
\* first and after the second: p1[.suspending()].bind(() => p2)
\* [.suspending()].bind(() => p3)
pausing(flag, c) == IF flag THEN suspending(c) ELSE c

chain(ps, flags) ==
  bind_Coroutine(const(ps[3]),
    pausing(flags[2], bind_Coroutine(const(ps[2]), pausing(flags[1], ps[1]))))

ChainExperiments ==
  {Experiment("chain", chain(<<p1, p2, p3>>, <<b1, b2>>), keep, keep,
              [steps |-> <<p1, p2, p3>>, flags |-> <<b1, b2>>], 0) :
     p1 \in Prints, p2 \in Prints, p3 \in Prints, b1 \in BOOLEAN, b2 \in BOOLEAN}

\* effects that suspend a number of times that no state changes, for the
\* count of the suspensions of bind, zip and repeat beside their parts
Waiters ==
  { wait(0), wait(1), wait(2), compute(inc), suspending(transform(inc)),
    suspending(counting), after(1, "A") }

CountExperiments ==
  {Experiment("bindCount", m, keep, keep, q, 0) : m \in Waiters, q \in Waiters}
    \cup {Experiment("zipCount", m, keep, keep, q, 0) : m \in Waiters, q \in Waiters}
    \cup {Experiment("repeatCount", m, keep, keep, m, n) : m \in Waiters, n \in 0..MaxCount}

\* race(wait(m), wait(n)), for the ticks of the tests and fewer
Ticks == (0..MaxTicks) \cup {RaceTicksB, RaceTicksA}

RaceWaitExperiments ==
  {Experiment("raceWaits", wait(m), keep, keep, [ticks |-> <<m, n>>, snd |-> wait(n)], 0) :
     m \in Ticks, n \in Ticks}

\* races whose winner changes the state; n tells the winner, 1 for fst
RaceFrameExperiments ==
  {Experiment("raceFrame", winner, keep, keep, wait(1), 1) :
     winner \in {transform(inc), bind_Coroutine(const(compute(double)), transform(inc))}}
    \cup {Experiment("raceFrame", wait(2), keep, keep, winner, 2) :
             winner \in {transform(inc), bind_Coroutine(const(transform(inc)), wait(1))}}
    \cup {Experiment("raceFrame", transform(inc), keep, keep, transform(double), 1)}

Experiments ==
  WaitExperiments \cup AssocExperiments \cup LeftIdExperiments \cup BindExperiments
    \cup MapExperiments \cup RunExperiments \cup RepeatExperiments
    \cup LoopExperiments \cup CollectExperiments \cup RetryExperiments
    \cup OrElseExperiments \cup ZipExperiments \cup RaceExperiments
    \cup RaceStateExperiments \cup RaceStepsExperiments \cup ParallelExperiments
    \cup InterruptionExperiments \cup ForEachExperiments \cup SequenceExperiments \cup GetValueExperiments
    \cup FromEitherExperiments \cup ResumeExperiments \cup ChainExperiments
    \cup CountExperiments \cup RaceWaitExperiments \cup RaceFrameExperiments

Programs(x) ==
  CASE x.law = "wait" -> <<wait(x.n)>>
    [] x.law = "assoc" -> <<bind_Coroutine(x.g, bind_Coroutine(x.f, x.m)),
                            bind_Coroutine(then(x.f, x.g), x.m)>>
    [] x.law = "leftId" -> <<bind_Coroutine(x.f, succeed(x.a)), body(x.f, x.a, World0).v>>
    [] x.law = "bind" -> <<bind_Coroutine(x.f, x.m), x.m>>
    [] x.law = "map" -> <<map_Coroutine(x.f, x.m), x.m>>
    [] x.law = "run" -> <<x.m>>
    [] x.law = "repeat" -> <<repeat(x.n, x.m)>>
    [] x.law = "repeatWhile" -> <<repeatWhile(x.f, x.m)>>
    [] x.law = "repeatUntil" -> <<repeatUntil(x.f, x.m)>>
    [] x.law = "collectWhile" -> <<collectWhile(x.f, x.m)>>
    [] x.law = "collectUntil" -> <<collectUntil(x.f, x.m)>>
    [] x.law = "retry" -> <<retry(x.n, x.m)>>
    [] x.law = "orElse" -> <<orElse(x.m, x.a), x.m, x.a>>
    [] x.law = "zip" -> <<zip(x.m, x.a), x.m>>
    [] x.law = "race" -> <<race(x.m, x.a), x.m, x.a>>
    [] x.law = "raceState" -> <<race(x.m, x.a)>>
    [] x.law = "interruptions" -> <<x.m>>
    [] x.law = "raceFrame" -> <<race(x.m, x.a), IF x.n = 1 THEN x.m ELSE x.a>>
    [] x.law = "raceWaits" -> <<race(x.m, x.a.snd)>>
    [] x.law = "bindCount" -> <<bind_Coroutine(const(x.a), x.m), x.m, x.a>>
    [] x.law = "zipCount" -> <<zip(x.m, x.a), x.m, x.a>>
    [] x.law = "repeatCount" -> <<repeat(x.n, x.m), x.m, x.a>>
    [] x.law = "chain" -> <<x.m>>
    [] x.law = "resume" -> <<x.m>>
    [] x.law = "fromEither" -> <<x.m>>
    [] x.law = "getValue" -> <<x.m, x.m>>
    [] x.law = "forEach" -> <<x.m>>
    [] x.law = "sequence" -> <<x.m>> \o x.a.items
    [] x.law = "inParallelWith" -> <<inParallelWith(x.m, x.a), x.m, x.a>>
    [] x.law = "raceSteps" -> <<race(x.m, x.a)>>

\* ------------------------------------------------------------------------
\* The driver
\* ------------------------------------------------------------------------
VARIABLES
  scen,    \* the experiment
  runs,    \* per program: the coroutine to drive next, where the driver stands,
           \* what unsafeRun returned last, the world, and (for the observer) the
           \* outcome and the journal of every invocation so far, the program
           \* the run began with and the state it was first invoked with, and
           \* after every invocation the outcome of the same invocation once
           \* more and of the first invocation once more
  passed   \* the states the driver passed so far

vars == <<scen, runs, passed>>

NewRun(program) ==
  [program |-> program, pc |-> "ready", result |-> None, world |-> World0,
   outcomes |-> <<>>, journals |-> <<>>,
   original |-> program, first |-> None, twice |-> <<>>, replays |-> <<>>]

\* one tick of the driver loop (test wait, examples/wait.ts lines 7-16):
\* unsafeRun on the current program, which is replaced by the continuation
\* when unsafeRun returns one
Ticked(r, s, seen, got) ==
  LET first == IF r.outcomes = <<>> THEN s ELSE r.first
  IN  [program |-> IF got.res.kind = "left" THEN got.res.value ELSE r.program,
       pc |-> CASE got.res.kind = "left" -> "ready"
                [] got.res.kind = "right" -> "done"
                [] OTHER -> "thrown",
       result |-> got.res,
       world |-> got.w,
       outcomes |-> Append(r.outcomes, seen.res),
       journals |-> Append(r.journals, got.w.journal),
       original |-> r.original,
       first |-> first,
       twice |-> Append(r.twice, invoke(r.program, s, got.w)),
       replays |-> Append(r.replays, invoke(r.original, first, got.w))]

\* the journal of a drive begins empty
Unjournaled(w) == [w EXCEPT !.journal = <<>>]

Tick(r, s) ==
  Ticked(r, s, invoke(r.program, s, Unjournaled(r.world)),
         unsafeRun(r.program, s, Unjournaled(r.world)))

Init ==
  /\ scen \in Experiments
  /\ runs = [i \in DOMAIN Programs(scen) |-> NewRun(Programs(scen)[i])]
  /\ passed = <<>>

Drive(s) ==
  /\ Len(passed) < MaxDrives
  /\ \E i \in DOMAIN runs : runs[i].pc = "ready"
  /\ runs' = [i \in DOMAIN runs |-> IF runs[i].pc = "ready" THEN Tick(runs[i], s) ELSE runs[i]]
  /\ passed' = Append(passed, s)
  /\ UNCHANGED scen

\* a call of unsafeRunGetValue on a program that was not driven yet: the run
\* ends, with the Pair returned or with the Error raised
Got(r, s, seen, got) ==
  [program |-> r.program,
   pc |-> IF got.ok THEN "returned" ELSE "raised",
   result |-> [kind |-> IF got.ok THEN "value" ELSE "throw", value |-> got.v],
   world |-> got.w,
   outcomes |-> Append(r.outcomes, seen.res),
   journals |-> Append(r.journals, got.w.journal),
   original |-> r.original,
   first |-> s,
   twice |-> Append(r.twice, invoke(r.program, s, got.w)),
   replays |-> Append(r.replays, invoke(r.original, s, got.w))]

GetValue(r, s) ==
  Got(r, s, invoke(r.program, s, Unjournaled(r.world)),
      unsafeRunGetValue(r.program, s, Unjournaled(r.world)))

\* unsafeRunGetValue on the first program of the experiment and, beside it,
\* a tick of the driver on the second
Extract(s) ==
  /\ scen.law = "getValue"
  /\ passed = <<>>
  /\ runs' = [runs EXCEPT ![1] = GetValue(runs[1], s), ![2] = Tick(runs[2], s)]
  /\ passed' = <<s>>
  /\ UNCHANGED scen

Next ==
  \/ \E s \in States : Drive(s)
  \/ \E s \in States : Extract(s)

Spec == Init /\ [][Next]_vars

\* ------------------------------------------------------------------------
\* What the observer reads off a run
\* ------------------------------------------------------------------------
Drives(r) == Len(r.outcomes)

Tag(res) ==
  CASE IsThrown(res) -> "Thrown"
    [] IsCompleted(res) -> "Completed"
    [] IsFailed(res) -> "Failed"
    [] OTHER -> "Suspended"

Tags(r) == [d \in 1..Drives(r) |-> Tag(r.outcomes[d])]

\* ------------------------------------------------------------------------
\* C1  wait(n), driven by resuming the continuation unsafeRun returns, is
\* suspended on each of the first n drives (unsafeRun returns left) and
\* completed on drive n + 1 (unsafeRun returns right, with Unit); for n <= 0
\* the first drive completes.
\* ------------------------------------------------------------------------
C1_WaitSuspendsNTimes ==
  scen.law = "wait" =>
    LET r == runs[1]
        n == IF scen.n <= 0 THEN 0 ELSE scen.n
    IN  /\ Drives(r) <= n + 1
        /\ \A d \in 1..Drives(r) :
              Tag(r.outcomes[d]) = IF d <= n THEN "Suspended" ELSE "Completed"
        /\ Drives(r) >= 1 =>
              /\ r.result.kind = IF Drives(r) <= n THEN "left" ELSE "right"
              /\ r.pc = IF Drives(r) <= n THEN "ready" ELSE "done"
              /\ Drives(r) = n + 1 => r.result.value = Pair(Unit, passed[n + 1])

C1_Witness ==
  /\ scen.law = "wait"
  /\ scen.n = 2
  /\ Drives(runs[1]) = 3
  /\ runs[1].pc = "done"

\* the outcome a run ended with: Completed(value, state) or Failed(error)
Ended(r) == r.pc # "ready"

Final(r) == r.outcomes[Drives(r)]

\* how often f was called during drive d of r
CallsOf(f, r, d) == Cardinality({i \in DOMAIN r.journals[d] : r.journals[d][i] = Called(f)})

\* ------------------------------------------------------------------------
\* C2  Associativity: bind(bind(m, f), g) and bind(m, x => bind(f(x), g)),
\* driven with the same states, have the same outcome tag on every drive, and
\* end in the same Completed(value, state) or Failed(error).
\* ------------------------------------------------------------------------
C2_Associativity ==
  scen.law = "assoc" =>
    /\ Tags(runs[1]) = Tags(runs[2])
    /\ runs[1].pc = runs[2].pc
    /\ Ended(runs[1]) => Final(runs[1]) = Final(runs[2])

C2_Witness ==
  /\ scen.law = "assoc"
  /\ scen.m = bind_Coroutine(const(transform(inc)), wait(1))
  /\ scen.f = step
  /\ scen.g = step
  /\ runs[1].pc = "done"
  /\ runs[2].pc = "done"
  /\ Drives(runs[1]) = 2

\* ------------------------------------------------------------------------
\* C3  Left identity: bind(succeed(a), f) invoked with s yields the outcome
\* of f(a) invoked with s: the same tag, value and state, the same error,
\* the same continuation, on the first drive and on every later one.
\* ------------------------------------------------------------------------
C3_LeftIdentity ==
  scen.law = "leftId" =>
    /\ runs[1].outcomes = runs[2].outcomes
    /\ runs[1].result = runs[2].result
    /\ (Drives(runs[1]) >= 1 /\ runs[1].pc = "ready") => runs[1].program = runs[2].program

C3_Witness ==
  /\ scen.law = "leftId"
  /\ scen.f = step
  /\ scen.a = Num(1)
  /\ passed = <<Num(1)>>
  /\ runs[1].result = right(Pair(Pair(Num(1), Num(2)), Num(2)))

\* ------------------------------------------------------------------------
\* C4  Right identity: bind(m, succeed) is suspended on exactly the drives m
\* is, and ends in the Completed(value, state) or Failed(error) m ends in.
\* ------------------------------------------------------------------------
C4_RightIdentity ==
  (scen.law = "bind" /\ scen.f = keep) =>
    /\ Tags(runs[1]) = Tags(runs[2])
    /\ Ended(runs[1]) => Final(runs[1]) = Final(runs[2])

C4_Witness ==
  /\ scen.law = "bind"
  /\ scen.f = keep
  /\ scen.m = suspending(transform(double))
  /\ Tags(runs[1]) = <<"Suspended", "Completed">>

\* ------------------------------------------------------------------------
\* C5  Strict sequencing: in bind(m, f), f is called only on the drive on
\* which m completes; on a drive where m is suspended or failed f is not
\* called, and over the whole drive f is called at most once.
\* (runs[2] is m alone, driven with the same states.)
\* ------------------------------------------------------------------------
CallsSoFar(f, r) == LET RECURSIVE sum(_)
                        sum(d) == IF d = 0 THEN 0 ELSE CallsOf(f, r, d) + sum(d - 1)
                    IN  sum(Drives(r))

C5_StrictSequencing ==
  scen.law = "bind" =>
    /\ \A d \in 1..Drives(runs[1]) :
          CallsOf(scen.f, runs[1], d) =
            IF d <= Drives(runs[2]) /\ Tag(runs[2].outcomes[d]) = "Completed" THEN 1 ELSE 0
    /\ CallsSoFar(scen.f, runs[1]) <= 1

C5_Witness ==
  /\ scen.law = "bind"
  /\ scen.m = wait(2)
  /\ scen.f = pause
  /\ Tags(runs[2]) = <<"Suspended", "Suspended", "Completed">>
  /\ Tags(runs[1]) = <<"Suspended", "Suspended", "Suspended">>
  /\ CallsOf(scen.f, runs[1], 3) = 1

\* ------------------------------------------------------------------------
\* C6  map pushes through suspension: when m, driven with some states, is
\* suspended k times and then completes with (a, s'), map(f)(m) driven with
\* the same states is suspended k times with the snapshot states of m and
\* then completes with (f(a), s'); f is called once, on the completing drive.
\* ------------------------------------------------------------------------
Snapshot(res) == res.value.value.fst

\* what the functions of Mappers return for a
Mapped(f, a) == IF f = box THEN ListOf(<<a>>) ELSE f.a

C6_MapThroughSuspension ==
  scen.law = "map" =>
    \A d \in 1..Drives(runs[2]) :
      LET of_m == runs[2].outcomes[d]
          of_map == runs[1].outcomes[d]
      IN  /\ IsSuspended(of_m) =>
                /\ IsSuspended(of_map)
                /\ Snapshot(of_map) = Snapshot(of_m)
                /\ CallsOf(scen.f, runs[1], d) = 0
          /\ IsCompleted(of_m) =>
                /\ of_map = right(Pair(Mapped(scen.f, of_m.value.fst), of_m.value.snd))
                /\ CallsOf(scen.f, runs[1], d) = 1
                /\ CallsSoFar(scen.f, runs[1]) = 1

C6_Witness ==
  /\ scen.law = "map"
  /\ scen.m = bind_Coroutine(const(transform(inc)), wait(1))
  /\ scen.f = box
  /\ passed = <<Num(0), Num(1)>>
  /\ Tags(runs[1]) = <<"Suspended", "Completed">>
  /\ Final(runs[1]) = right(Pair(ListOf(<<Num(2)>>), Num(2)))

\* ------------------------------------------------------------------------
\* C7  Failure propagation: in a program built with map, bind, zip, repeat,
\* repeatWhile, repeatUntil, collectWhile, collectUntil and race, when a
\* component yields Failed(e) during a drive, the outcome of the drive is
\* Failed(e) with that e, no function of the program is called after the
\* failure, and nothing else (no partial result) is delivered.
\* ------------------------------------------------------------------------
FailuresOf(journal) == {i \in DOMAIN journal : journal[i].ev = "failed"}

\* the experiments on orElse and retry, which take a failure up
\* (inParallelWith, which steps both sides of a pair, is not among the
\* operators of C7)
Recovers(x) == x.m \in Recovering \/ x.law \in {"orElse", "retry"}

C7_FailurePropagation ==
  (~Recovers(scen) /\ scen.law # "inParallelWith") =>
    \A k \in DOMAIN runs : \A d \in 1..Drives(runs[k]) :
      LET journal == runs[k].journals[d]
      IN  \A i \in FailuresOf(journal) :
            /\ runs[k].outcomes[d] = left(left(journal[i].e))
            /\ \A j \in DOMAIN journal : j > i => journal[j] = journal[i]

C7_Witness ==
  /\ scen.law = "run"
  /\ scen.m = collectUntil(geq(5), bind_Coroutine(const(transform(incBelow(1))), suspend))
  /\ passed = <<Num(0), Num(0), Num(1)>>
  /\ Tags(runs[1]) = <<"Suspended", "Suspended", "Failed">>
  /\ Final(runs[1]) = left(left(Error(<<"limit">>)))

\* ------------------------------------------------------------------------
\* C8  compute(f) invoked with s yields Completed(f(s), s), the state as it
\* was, when f returns, and Failed(e) with the value e that f threw when f
\* throws; the invocation itself never throws.
\* ------------------------------------------------------------------------
\* what s => s + 1 and s => s * 2 return for the number s
Plus1(s) == Num(s.n + 1)

Times2(s) == Num(s.n * 2)

C8_Compute ==
  (scen.law = "run" /\ Drives(runs[1]) >= 1) =>
    LET s == passed[1]
        outcome == runs[1].outcomes[1]
    IN  /\ scen.m = compute(inc) => outcome = right(Pair(Plus1(s), s))
        /\ scen.m = compute(double) => outcome = right(Pair(Times2(s), s))
        /\ scen.m = effect(count) =>
              outcome = right(Pair(undefined, s)) /\ runs[1].world.counter = 1
        /\ scen.m = compute(boom) => outcome = left(left(Error(<<>>)))

C8_Witness ==
  /\ scen.law = "run"
  /\ scen.m = compute(boom)
  /\ Tags(runs[1]) = <<"Failed">>

C8_WitnessCompleted ==
  /\ scen.law = "run"
  /\ scen.m = compute(inc)
  /\ passed = <<Num(1)>>
  /\ runs[1].result = right(Pair(Num(2), Num(1)))

\* ------------------------------------------------------------------------
\* C9  transform(f) invoked with s yields Completed(f(s), f(s)): the value
\* is the new state, and an effect bound after it is invoked, in the same
\* drive, with f(s); when f throws the outcome is Failed with what f threw.
\* ------------------------------------------------------------------------
C9_Transform ==
  (scen.law = "run" /\ Drives(runs[1]) >= 1) =>
    LET s == passed[1]
        outcome == runs[1].outcomes[1]
    IN  /\ scen.m = transform(inc) => outcome = right(Pair(Plus1(s), Plus1(s)))
        /\ scen.m = transform(double) => outcome = right(Pair(Times2(s), Times2(s)))
        /\ scen.m = transform(boom) => outcome = left(left(Error(<<>>)))
        /\ scen.m = bind_Coroutine(const(compute(double)), transform(inc)) =>
              outcome = right(Pair(Times2(Plus1(s)), Plus1(s)))
        /\ scen.m = zip(transform(inc), compute(double)) =>
              outcome = right(Pair(Pair(Plus1(s), Times2(Plus1(s))), Plus1(s)))

C9_Witness ==
  /\ scen.law = "run"
  /\ scen.m = bind_Coroutine(const(compute(double)), transform(inc))
  /\ passed = <<Num(1)>>
  /\ runs[1].result = right(Pair(Num(4), Num(2)))

\* ------------------------------------------------------------------------
\* C10  unsafeRun(effect, s) invokes the effect once (an effect that counts
\* its invocations counts one): Completed(a, s') gives
\* right(Pair(a, s')); Suspended(_, k) gives left(k), the continuation;
\* Failed(err) raises an Error whose message is "Coroutine failed with: "
\* followed by err as a string, for the err of fail(e) as for an exception
\* that compute / transform / effect captured.
\* ------------------------------------------------------------------------
\* the run ended in a call of unsafeRunGetValue, not in a tick of the driver
Extracted(r) == r.pc \in {"returned", "raised"}

C10_UnsafeRun ==
  \A k \in DOMAIN runs :
    (Drives(runs[k]) >= 1 /\ ~Extracted(runs[k])) =>
      LET r == runs[k]
          outcome == Final(r)
      IN  /\ IsCompleted(outcome) => r.result = right(outcome.value) /\ r.pc = "done"
          /\ (scen.law = "run" /\ scen.m = effect(count)) => r.world.counter = 1
          /\ IsSuspended(outcome) =>
                /\ r.result = left(outcome.value.value.snd)
                /\ r.program = outcome.value.value.snd
                /\ r.pc = "ready"
          /\ IsFailed(outcome) =>
                /\ r.pc = "thrown"
                /\ r.result.kind = "throw"
                /\ r.result.value.vt = "Error"
                /\ r.result.value.message =
                     <<"Coroutine failed with: ">> \o JsString(outcome.value.value)
                /\ outcome.value.value = Str("boom") =>
                     r.result.value.message = <<"Coroutine failed with: ", "boom">>
                /\ outcome.value.value = Error(<<>>) =>
                     r.result.value.message = <<"Coroutine failed with: ", "Error">>

C10_Witness ==
  /\ scen.law = "run"
  /\ scen.m = fail(Str("boom"))
  /\ runs[1].pc = "thrown"
  /\ runs[1].result = [kind |-> "throw", value |-> Error(<<"Coroutine failed with: ", "boom">>)]

C10_WitnessCaptured ==
  /\ scen.law = "run"
  /\ scen.m = transform(boom)
  /\ runs[1].result = [kind |-> "throw", value |-> Error(<<"Coroutine failed with: ", "Error">>)]

C10_WitnessSuspended ==
  /\ scen.law = "run"
  /\ scen.m = collectWhile(leq(1), suspending(transform(inc)))
  /\ passed = <<Num(0)>>
  /\ runs[1].outcomes[1].value.value.fst = Num(1)
  /\ runs[1].result.kind = "left"
  /\ runs[1].result.value # Num(1)

\* ------------------------------------------------------------------------
\* C11: repeat(n) of a procedure that does not suspend executes the
\* procedure exactly n times within the one drive (the counter of the
\* procedure's side effect reads n afterwards) and completes with the unit
\* value; for n <= 0 the procedure is executed zero times and repeat
\* completes at once with the state it was given.
\* ------------------------------------------------------------------------
Max(a, b) == IF a >= b THEN a ELSE b

Min(a, b) == IF a <= b THEN a ELSE b

C11_RepeatExact ==
  (scen.law = "repeat" /\ Drives(runs[1]) >= 1) =>
    LET r == runs[1]
        times == Max(scen.n, 0)
    IN  /\ Drives(r) = 1 /\ r.pc = "done"
        /\ r.world.counter = times
        /\ CallsOf(count, r, 1) = times
        /\ r.outcomes[1] =
             right(Pair(Unit, IF scen.m = stepping THEN Num(passed[1].n + times) ELSE passed[1]))
        /\ scen.n <= 0 => r.journals[1] = <<>>

C11_Witness ==
  /\ scen.law = "repeat" /\ scen.n = RepeatCount /\ scen.m = counting
  /\ Drives(runs[1]) = 1 /\ runs[1].world.counter = RepeatCount
  /\ runs[1].result = right(Pair(Unit, passed[1]))

C11_WitnessNone ==
  /\ scen.law = "repeat" /\ scen.n = 0 - 1 /\ scen.m = stepping
  /\ Drives(runs[1]) = 1 /\ runs[1].world.counter = 0
  /\ runs[1].result = right(Pair(Unit, passed[1]))

\* ------------------------------------------------------------------------
\* C12: repeatWhile(p) and repeatUntil(p) evaluate p before every
\* iteration.  The procedure is executed once for each consecutive state on
\* which the loop is to continue (p true for repeatWhile, p false for
\* repeatUntil), the loop completes with the unit value at the first state
\* where it is not, and the procedure is never executed when the loop is not
\* to continue on the initial state.
\* ------------------------------------------------------------------------
\* the number of consecutive states, from s on, on which the loop goes on
Iterations(p, s) ==
  CASE p.fn = "leq" -> Max(p.n - s.n + 1, 0)
    [] p.fn = "geq" -> Max(p.n - s.n, 0)
    [] p.fn = "countLeq" -> Max(p.n + 1, 0)
    [] p.fn = "countGeq" -> Max(p.n, 0)

\* the calls of p and of the procedure's side effect, in the order they happened
Trace(p, journal) == SelectSeq(journal, LAMBDA e : e \in {Called(p), Called(count)})

C12_LoopPredicateFirst ==
  (scen.law \in {"repeatWhile", "repeatUntil"} /\ Drives(runs[1]) >= 1) =>
    LET r == runs[1]
        s == passed[1]
        times == Iterations(scen.f, s)
    IN  /\ Drives(r) = 1 /\ r.pc = "done"
        /\ r.world.counter = times
        /\ Trace(scen.f, r.journals[1]) =
             [i \in 1..(2 * times + 1) |-> IF i % 2 = 1 THEN Called(scen.f) ELSE Called(count)]
        /\ r.outcomes[1] = right(Pair(Unit, IF scen.m = stepping THEN Num(s.n + times) ELSE s))

C12_Witness ==
  /\ scen.law = "repeatWhile" /\ scen.f = leq(MaxCount) /\ Drives(runs[1]) = 1
  /\ passed[1] = Num(1) /\ runs[1].world.counter = MaxCount
  /\ runs[1].result = right(Pair(Unit, Num(MaxCount + 1)))

C12_WitnessUntil ==
  /\ scen.law = "repeatUntil" /\ scen.f = countGeq(LoopLimit) /\ Drives(runs[1]) = 1
  /\ runs[1].world.counter = LoopLimit

C12_WitnessWhile ==
  /\ scen.law = "repeatWhile" /\ scen.f = countLeq(LoopLimit) /\ Drives(runs[1]) = 1
  /\ runs[1].world.counter = LoopLimit + 1

C12_WitnessNever ==
  /\ scen.law = "repeatUntil" /\ scen.f = geq(0) /\ Drives(runs[1]) = 1
  /\ runs[1].world.counter = 0 /\ runs[1].result = right(Pair(Unit, passed[1]))

\* ------------------------------------------------------------------------
\* C13: collectWhile(p) and collectUntil(p) complete with the values of the
\* iterations in the order of the iterations, the first iteration's value
\* first and the last one's last, one element per executed iteration; the
\* sequence is empty when the predicate stops the loop before the first
\* iteration.  collectUntil(s => s >= 16) over transform(s => s + 1) from
\* the state 0 produces 1, 2, ..., 16.
\* ------------------------------------------------------------------------
\* the value of the iteration that leaves the state t
Produced(m, t) == IF m = doubling THEN Num(2 * t) ELSE Num(t)

C13_CollectInOrder ==
  (scen.law \in {"collectWhile", "collectUntil"} /\ Drives(runs[1]) >= 1) =>
    LET r == runs[1]
        s == passed[1]
        times == Iterations(scen.f, s)
    IN  /\ Drives(r) = 1 /\ r.pc = "done"
        /\ r.outcomes[1] =
             right(Pair(ListOf([i \in 1..times |-> Produced(scen.m, s.n + i)]), Num(s.n + times)))
        /\ times = 0 => r.outcomes[1].value.fst = ListOf(<<>>)

C13_Witness ==
  /\ scen.law = "collectUntil" /\ scen.f = geq(MaxCount) /\ scen.m = transform(inc)
  /\ Drives(runs[1]) = 1 /\ passed[1] = Num(0)
  /\ runs[1].result = right(Pair(ListOf([i \in 1..MaxCount |-> Num(i)]), Num(MaxCount)))

C13_WitnessWhile ==
  /\ scen.law = "collectWhile" /\ scen.f = leq(MaxCount) /\ scen.m = doubling
  /\ Drives(runs[1]) = 1 /\ passed[1] = Num(1)
  /\ runs[1].result.value.fst = ListOf([i \in 1..MaxCount |-> Num(2 * (i + 1))])

C13_WitnessEmpty ==
  /\ scen.law = "collectWhile" /\ scen.f = leq(0 - 1) /\ Drives(runs[1]) = 1
  /\ runs[1].result = right(Pair(ListOf(<<>>), passed[1]))

\* ------------------------------------------------------------------------
\* C14: retry(n) invokes a failing effect again at most n more times and
\* stops at the first success.  An effect that fails on the attempts 1 to 5
\* and succeeds on the attempt 6, wrapped in retry(10), completes after
\* exactly 6 invocations of the wrapped function.
\* ------------------------------------------------------------------------
\* the error of the k-th attempt
Boom(k) == Error(<<"BOOM", ToString(k)>>)

C14_RetryUntilSuccess ==
  (scen.law = "retry" /\ scen.f # hopeless /\ Drives(runs[1]) >= 1) =>
    LET r == runs[1]
        failures == scen.f.n
        allowed == Max(scen.n, 0) + 1
        attempts == Min(failures + 1, allowed)
    IN  /\ Drives(r) = 1
        /\ r.world.counter = attempts
        /\ CallsOf(scen.f, r, 1) = attempts
        /\ failures < allowed =>
             /\ r.pc = "done"
             /\ r.outcomes[1] = right(Pair(Str(ToString(failures + 1)), passed[1]))
        /\ failures >= allowed => IsFailed(r.outcomes[1]) /\ r.pc = "thrown"

C14_Witness ==
  /\ scen.law = "retry" /\ scen.f = flaky(FailingAttempts) /\ scen.n = RetryCount
  /\ Drives(runs[1]) = 1 /\ runs[1].pc = "done"
  /\ runs[1].world.counter = FailingAttempts + 1
  /\ CallsOf(flaky(FailingAttempts), runs[1], 1) = FailingAttempts + 1

\* ------------------------------------------------------------------------
\* C15: when the wrapped effect fails on every attempt, retry(n) makes
\* exactly n + 1 attempts and the error it fails with is the error of the
\* last attempt (the 11th for retry(10)), not of the first; for n <= 0
\* there is no second attempt and the first failure is the outcome.
\* ------------------------------------------------------------------------
C15_RetryExhaustion ==
  (scen.law = "retry" /\ Drives(runs[1]) >= 1
     /\ (scen.f = hopeless \/ scen.f.n > Max(scen.n, 0))) =>
    LET r == runs[1]
        attempts == Max(scen.n, 0) + 1
    IN  /\ Drives(r) = 1 /\ r.pc = "thrown"
        /\ r.world.counter = attempts
        /\ CallsOf(scen.f, r, 1) = attempts
        /\ r.outcomes[1] = left(left(Boom(attempts)))
        /\ SelectSeq(r.journals[1], LAMBDA e : e.ev = "failed") =
             [k \in 1..attempts |-> Yielded(Boom(k))]
        /\ r.result.value = Error(<<"Coroutine failed with: ">> \o JsString(Boom(attempts)))

C15_Witness ==
  /\ scen.law = "retry" /\ scen.f = hopeless /\ scen.n = RetryCount
  /\ Drives(runs[1]) = 1 /\ runs[1].world.counter = RetryCount + 1
  /\ runs[1].outcomes[1] = left(left(Boom(RetryCount + 1)))

C15_WitnessNoRetry ==
  /\ scen.law = "retry" /\ scen.f = hopeless /\ scen.n = 0 - 1
  /\ Drives(runs[1]) = 1 /\ runs[1].world.counter = 1
  /\ runs[1].outcomes[1] = left(left(Boom(1)))

\* ------------------------------------------------------------------------
\* C16: orElse(primary, alt) invoked with the state s.  When primary yields
\* Failed on s (an explicit fail or a captured exception), alt is invoked
\* with the same s and its outcome is the outcome of orElse; when primary
\* yields Completed, alt is never invoked and the outcome is primary's.
\* The runs are orElse(primary, alt), primary and alt, driven side by side.
\* ------------------------------------------------------------------------
C16_OrElse ==
  (scen.law = "orElse" /\ Drives(runs[1]) >= 1) =>
    LET whole == runs[1]
        primary == runs[2]
        alt == runs[3]
    IN  /\ IsFailed(primary.outcomes[1]) =>
             /\ whole.outcomes[1] = alt.outcomes[1]
             /\ whole.journals[1] = primary.journals[1] \o alt.journals[1]
             /\ CallsOf(count, whole, 1) = 1
             /\ scen.a = bind_Coroutine(const(compute(double)), counting) =>
                  whole.outcomes[1] = right(Pair(Times2(passed[1]), passed[1]))
        /\ IsCompleted(primary.outcomes[1]) =>
             /\ whole.outcomes[1] = primary.outcomes[1]
             /\ whole.journals[1] = primary.journals[1]
             /\ CallsOf(count, whole, 1) = 0

C16_Witness ==
  /\ scen.law = "orElse"
  /\ scen.m = bind_Coroutine(const(compute(boom)), transform(inc))
  /\ scen.a = bind_Coroutine(const(compute(double)), counting)
  /\ passed = <<Num(1)>>
  /\ runs[2].outcomes[1] = left(left(Error(<<>>)))
  /\ runs[1].result = right(Pair(Num(2), Num(1)))
  /\ runs[1].world.counter = 1

C16_WitnessCompleted ==
  /\ scen.law = "orElse" /\ scen.m = transform(inc)
  /\ passed = <<Num(1)>>
  /\ runs[1].result = right(Pair(Num(2), Num(2)))
  /\ runs[1].world.counter = 0

\* ------------------------------------------------------------------------
\* C17: orElse passes a Suspended outcome of the primary through as it is:
\* the outcome is Suspended(s', k) with the primary's own continuation k.
\* The alternative is not consulted while the primary is suspended, so when
\* k yields Failed on a later drive, that failure is the outcome and the
\* alternative is never invoked.
\* ------------------------------------------------------------------------
C17_OrElseSuspended ==
  (scen.law = "orElse" /\ Drives(runs[1]) >= 1 /\ IsSuspended(runs[2].outcomes[1])) =>
    LET whole == runs[1]
        primary == runs[2]
    IN  /\ whole.outcomes = primary.outcomes
        /\ whole.journals = primary.journals
        /\ whole.program = primary.program
        /\ whole.result = primary.result
        /\ whole.world.counter = 0

C17_Witness ==
  /\ scen.law = "orElse"
  /\ scen.m = bind_Coroutine(const(fail(Str("late"))), suspend)
  /\ Tags(runs[1]) = <<"Suspended", "Failed">>
  /\ runs[1].outcomes[1].value.value.snd = runs[2].outcomes[1].value.value.snd
  /\ Final(runs[1]) = left(left(Str("late")))
  /\ runs[1].pc = "thrown"
  /\ runs[1].world.counter = 0 /\ runs[3].world.counter >= 1

\* ------------------------------------------------------------------------
\* C18: zip(self, other) runs the two one after the other.  other is
\* invoked only after self has completed, with the state self completed
\* with, and the result is Completed(Pair(a, b), finalState), finalState
\* being the state other completed with.  When self fails, other is never
\* invoked and the failure is the outcome; when other fails, its failure is
\* the outcome.  The runs are zip(self, other) and self, driven side by side.
\* ------------------------------------------------------------------------
C18_ZipSequential ==
  scen.law = "zip" =>
    \A d \in 1..Drives(runs[2]) :
      LET whole == runs[1]
          self == runs[2].outcomes[d]
          begun == Len(runs[2].journals[d])
      IN  /\ Drives(whole) >= d
          /\ SubSeq(whole.journals[d], 1, begun) = runs[2].journals[d]
          /\ IsSuspended(self) =>
               /\ IsSuspended(whole.outcomes[d])
               /\ Snapshot(whole.outcomes[d]) = Snapshot(self)
               /\ CallsOf(count, whole, d) = 0
          /\ (IsFailed(self) \/ IsThrown(self)) =>
               /\ whole.outcomes[d] = self
               /\ whole.journals[d] = runs[2].journals[d]
               /\ whole.world.counter = 0
          /\ IsCompleted(self) =>
               LET a == self.value.fst
                   s1 == self.value.snd
               IN  /\ CallsOf(count, whole, d) = 1
                   /\ scen.a = bind_Coroutine(const(compute(double)), counting) =>
                        whole.outcomes[d] = right(Pair(Pair(a, Times2(s1)), s1))
                   /\ scen.a = bind_Coroutine(const(transform(double)), counting) =>
                        whole.outcomes[d] = right(Pair(Pair(a, Times2(s1)), Times2(s1)))
                   /\ scen.a = bind_Coroutine(const(fail(Str("alt"))), counting) =>
                        whole.outcomes[d] = left(left(Str("alt")))
                   /\ scen.a = bind_Coroutine(const(suspending(transform(double))), counting) =>
                        /\ IsSuspended(whole.outcomes[d])
                        /\ Snapshot(whole.outcomes[d]) = Times2(s1)
                        /\ Drives(whole) > d =>
                             whole.outcomes[d + 1] = right(Pair(Pair(a, Unit), passed[d + 1]))

C18_Witness ==
  /\ scen.law = "zip"
  /\ scen.m = bind_Coroutine(const(transform(inc)), wait(1))
  /\ scen.a = bind_Coroutine(const(transform(double)), counting)
  /\ passed = <<Num(0), Num(1)>>
  /\ Tags(runs[1]) = <<"Suspended", "Completed">>
  /\ Final(runs[1]) = right(Pair(Pair(Num(2), Num(4)), Num(4)))
  /\ CallsOf(count, runs[1], 1) = 0 /\ CallsOf(count, runs[1], 2) = 1

C18_WitnessSelfFails ==
  /\ scen.law = "zip"
  /\ scen.m = bind_Coroutine(const(fail(Str("late"))), transform(inc))
  /\ Drives(runs[1]) = 1
  /\ Final(runs[1]) = left(left(Str("late")))
  /\ runs[1].world.counter = 0

C18_WitnessOtherFails ==
  /\ scen.law = "zip" /\ scen.m = transform(inc)
  /\ scen.a = bind_Coroutine(const(fail(Str("alt"))), counting)
  /\ Drives(runs[1]) = 1
  /\ Final(runs[1]) = left(left(Str("alt")))
  /\ runs[1].world.counter = 1

\* ------------------------------------------------------------------------
\* C19: every control combinator pushes a suspension outward.  Whenever the
\* invocation of a component yields Suspended during a drive, the
\* invocation of the combinator around it (repeat, repeatWhile,
\* repeatUntil, collectWhile, collectUntil, zip, orElse, wait, race) yields
\* Suspended on that drive, and the driver is handed a continuation to
\* resume on the next drive.
\* ------------------------------------------------------------------------
\* For race the case taken is the one the rules of the winner and of the
\* failure leave open: both sides yield Suspended on the drive.
Racing(x) ==
  x.law \in {"race", "raceState", "raceSteps", "raceWaits", "raceFrame"} \/ (x.law = "run" /\ x.m.op = "race")

\* inParallelWith, where a failure of one side ends a pair whose other side
\* is suspended, and forEach, which raises when an element suspends, are
\* not among the combinators of C19 either
Concurrent(x) == Racing(x) \/ x.law \in {"inParallelWith", "forEach", "sequence"}

SuspendedIn(r, d) == \E i \in DOMAIN r.journals[d] : r.journals[d][i] = Paused

C19_SuspensionOutward ==
  /\ ~Concurrent(scen) =>
       \A k \in DOMAIN runs : \A d \in 1..Drives(runs[k]) :
         (SuspendedIn(runs[k], d) /\ ~Extracted(runs[k])) =>
           /\ IsSuspended(runs[k].outcomes[d])
           /\ d = Drives(runs[k]) =>
                /\ runs[k].pc = "ready"
                /\ runs[k].program = runs[k].outcomes[d].value.value.snd
  /\ (scen.law = "race" /\ Drives(runs[1]) >= 1
        /\ IsSuspended(runs[2].outcomes[1]) /\ IsSuspended(runs[3].outcomes[1])) =>
       IsSuspended(runs[1].outcomes[1])

\* the part of it that is not about race
C19_ButRace ==
  ~Concurrent(scen) =>
    \A k \in DOMAIN runs : \A d \in 1..Drives(runs[k]) :
      (SuspendedIn(runs[k], d) /\ ~Extracted(runs[k])) =>
        /\ IsSuspended(runs[k].outcomes[d])
        /\ d = Drives(runs[k]) =>
             /\ runs[k].pc = "ready"
             /\ runs[k].program = runs[k].outcomes[d].value.value.snd

\* ------------------------------------------------------------------------
\* C20: race(wait(5).bind(() => succeed("A")), wait(3).bind(() =>
\* succeed("B"))), driven by resuming the continuation it returns, completes
\* with the right-tagged "B" before the 5th drive.  In general the side
\* that needs fewer steps wins: the race is over no later than the drive on
\* which the faster side completes on its own, with that side's value under
\* that side's tag (the first side's when both need the same steps).
\* ------------------------------------------------------------------------
C20_RaceFasterWins ==
  \A i \in (0..MaxTicks) \cup {RaceTicksA} : \A j \in (0..MaxTicks) \cup {RaceTicksB} :
    (scen.law = "race" /\ scen.m = after(i, "A") /\ scen.a = after(j, "B")
       /\ Drives(runs[1]) >= 1) =>
      LET whole == runs[1]
          steps == Min(i, j) + 1
      IN  /\ Drives(whole) <= steps
          /\ whole.pc # "thrown"
          /\ Drives(whole) = steps => whole.pc = "done"
          /\ whole.pc = "done" =>
               whole.result =
                 right(Pair(IF j < i THEN right(Str("B")) ELSE left(Str("A")), passed[Drives(whole)]))

C20_Witness ==
  /\ scen.law = "race"
  /\ scen.m = after(RaceTicksA, "A") /\ scen.a = after(RaceTicksB, "B")
  /\ runs[1].pc = "done" /\ Drives(runs[1]) < RaceTicksA
  /\ runs[1].result.value.fst = right(Str("B"))
  /\ runs[2].pc = "ready" /\ runs[3].pc = "ready"

C20_WitnessFirst ==
  /\ scen.law = "race"
  /\ scen.m = after(1, "A") /\ scen.a = after(RaceTicksB, "B")
  /\ runs[1].pc = "done"
  /\ runs[1].result.value.fst = left(Str("A"))

\* ------------------------------------------------------------------------
\* C21: the winner of a race.  On the step on which exactly one side
\* completes while the other is suspended, the value of the completed side
\* wins, tagged left when the first operand completed and right when the
\* second did; when both sides complete on the same step the first operand
\* wins, tagged left.
\* The runs are race(fst, snd), fst and snd, driven side by side; step d of
\* a side is its d-th outcome on its own.
\* ------------------------------------------------------------------------
\* d is the step on which the race is decided: the first step on which a
\* side is not suspended
Decided(d) ==
  /\ d <= Min(Drives(runs[2]), Drives(runs[3]))
  /\ \A e \in 1..(d - 1) : IsSuspended(runs[2].outcomes[e]) /\ IsSuspended(runs[3].outcomes[e])
  /\ ~(IsSuspended(runs[2].outcomes[d]) /\ IsSuspended(runs[3].outcomes[d]))

C21_RaceWinner ==
  scen.law = "race" =>
    \A d \in 1..MaxDrives :
      LET first == runs[2].outcomes[d]
          second == runs[3].outcomes[d]
      IN  (Decided(d) /\ ~IsFailed(first) /\ ~IsFailed(second)) =>
            /\ IsCompleted(runs[1].outcomes[1])
            /\ runs[1].outcomes[1].value.fst =
                 IF IsCompleted(first) THEN left(first.value.fst) ELSE right(second.value.fst)

C21_Witness ==
  /\ scen.law = "race" /\ scen.m = after(2, "A") /\ scen.a = after(1, "B")
  /\ Decided(2)
  /\ IsSuspended(runs[2].outcomes[2]) /\ IsCompleted(runs[3].outcomes[2])
  /\ runs[1].outcomes[1].value.fst = right(Str("B"))

C21_WitnessLeft ==
  /\ scen.law = "race" /\ scen.m = after(0, "A") /\ scen.a = after(1, "B")
  /\ Decided(1)
  /\ runs[1].outcomes[1].value.fst = left(Str("A"))

C21_WitnessTie ==
  /\ scen.law = "race" /\ scen.m = after(1, "A") /\ scen.a = after(1, "B")
  /\ Decided(2)
  /\ IsCompleted(runs[2].outcomes[2]) /\ IsCompleted(runs[3].outcomes[2])
  /\ runs[1].outcomes[1].value.fst = left(Str("A"))

\* ------------------------------------------------------------------------
\* C22: the failure of a race.  When a side yields Failed on a step, the
\* race yields Failed with the error of that side whatever the other side
\* yields, also when the other side completed on the same step; when both
\* sides fail, the error of the first operand is the one reported.
\* ------------------------------------------------------------------------
C22_RaceFailure ==
  scen.law = "race" =>
    \A d \in 1..MaxDrives :
      LET first == runs[2].outcomes[d]
          second == runs[3].outcomes[d]
      IN  (Decided(d) /\ (IsFailed(first) \/ IsFailed(second))) =>
            runs[1].outcomes[1] = IF IsFailed(first) THEN first ELSE second

C22_Witness ==
  /\ scen.law = "race" /\ scen.m = after(1, "A") /\ scen.a = failing(1, "fb")
  /\ Decided(2)
  /\ IsCompleted(runs[2].outcomes[2])
  /\ runs[1].outcomes[1] = left(left(Str("fb")))

C22_WitnessBoth ==
  /\ scen.law = "race" /\ scen.m = failing(1, "fa") /\ scen.a = failing(1, "fb")
  /\ Decided(2)
  /\ runs[1].outcomes[1] = left(left(Str("fa")))

\* ------------------------------------------------------------------------
\* C23: when both sides of a race yield Suspended, the race goes on with
\* the two continuations, each resumed with its own snapshot state (the
\* state in that side's Suspended outcome), so that a change of the state a
\* side made before it suspended is seen by the continuation of that side.
\* One side is transform(s => s + 1).suspending().bind(() => compute(s =>
\* s * 2)), the other waits two ticks: resumed with its snapshot s + 1 the
\* first completes with (s + 1) * 2.
\* ------------------------------------------------------------------------
C23_RaceSnapshots ==
  (scen.law = "raceState" /\ Drives(runs[1]) >= 1) =>
    LET won == Times2(Plus1(passed[1]))
    IN  /\ IsCompleted(runs[1].outcomes[1])
        /\ runs[1].outcomes[1].value.fst = IF scen.m = stepThenRead THEN left(won) ELSE right(won)

\* ------------------------------------------------------------------------
\* C24: on each drive from outside, race steps each of its two sides
\* exactly once, both with the state passed to that drive, and no side is
\* stepped more often than the other between drives.
\* The first side calls s => s + 1 on each of its steps but the last, the
\* second side s => s * 2: on a drive each is called at most once, on the
\* first drive each exactly once, each with the state of the drive, and the
\* race is then suspended.
\* ------------------------------------------------------------------------
C24_RaceStepsOnce ==
  scen.law = "raceSteps" =>
    \A d \in 1..Drives(runs[1]) :
      /\ CallsOf(inc, runs[1], d) <= 1
      /\ CallsOf(double, runs[1], d) <= 1
      /\ d = 1 =>
           /\ CallsOf(inc, runs[1], d) = 1
           /\ CallsOf(double, runs[1], d) = 1
           /\ IsSuspended(runs[1].outcomes[d])

\* ------------------------------------------------------------------------
\* C25: inParallelWith(a, b) yields Suspended on every drive until both
\* sides have completed and then yields Completed(Pair(resultA, resultB),
\* state); it never completes while a side is still suspended, and a
\* failure of either side fails the pair.  wait(5) then "A" in parallel
\* with wait(3) then "B" completes with Pair("A", "B") within 8 drives.
\* The runs are the pair, a and b, driven side by side.
\* ------------------------------------------------------------------------
\* the side run r has completed / failed on one of its first d steps
CompletedBy(r, d) == \E e \in 1..Min(d, Drives(r)) : IsCompleted(r.outcomes[e])

FailedBy(r, d) == \E e \in 1..Min(d, Drives(r)) : IsFailed(r.outcomes[e])

\* the ticks of a side that waits and then succeeds
TicksOf(side) == CHOOSE i \in (0..MaxTicks) \cup {RaceTicksA, RaceTicksB} : side \in {after(i, "A"), after(i, "B")}

Waits(side) == \E i \in (0..MaxTicks) \cup {RaceTicksA, RaceTicksB} : side \in {after(i, "A"), after(i, "B")}

C25_InParallel ==
  scen.law = "inParallelWith" =>
    \A d \in 1..Drives(runs[1]) :
      LET pair == runs[1].outcomes[d]
          a == runs[2]
          b == runs[3]
      IN  /\ ~FailedBy(a, d - 1) /\ ~FailedBy(b, d - 1)
          /\ FailedBy(a, d) => pair = a.outcomes[d]
          /\ (~FailedBy(a, d) /\ FailedBy(b, d)) => pair = b.outcomes[d]
          /\ (~FailedBy(a, d) /\ ~FailedBy(b, d)) =>
               /\ IsCompleted(pair) <=> (CompletedBy(a, d) /\ CompletedBy(b, d))
               /\ IsSuspended(pair) <=> ~(CompletedBy(a, d) /\ CompletedBy(b, d))
               /\ IsCompleted(pair) => pair = right(Pair(Pair(Str("A"), Str("B")), passed[d]))
          /\ (Waits(scen.m) /\ Waits(scen.a)) =>
               /\ d <= Max(TicksOf(scen.m), TicksOf(scen.a)) + 1
               /\ IsCompleted(pair) <=> d = Max(TicksOf(scen.m), TicksOf(scen.a)) + 1

C25_Witness ==
  /\ scen.law = "inParallelWith" /\ scen.m = after(2, "A") /\ scen.a = after(1, "B")
  /\ Tags(runs[1]) = <<"Suspended", "Suspended", "Completed">>
  /\ Tags(runs[3]) = <<"Suspended", "Completed">>
  /\ runs[1].result.value.fst = Pair(Str("A"), Str("B"))

C25_WitnessFailure ==
  /\ scen.law = "inParallelWith" /\ scen.m = after(0, "A") /\ scen.a = failing(1, "fb")
  /\ Tags(runs[1]) = <<"Suspended", "Failed">>
  /\ Final(runs[1]) = left(left(Str("fb")))

C25_WitnessTest ==
  /\ scen.law = "inParallelWith"
  /\ scen.m = after(RaceTicksA, "A") /\ scen.a = after(RaceTicksB, "B")
  /\ Drives(runs[1]) = MaxDrives
  /\ \A d \in 1..MaxDrives : IsSuspended(runs[1].outcomes[d])

\* ------------------------------------------------------------------------
\* C26: p1.suspending().bind(() => p2).suspending().bind(() => p3) executes
\* p1 on the first drive and suspends, p2 on the second drive and suspends,
\* p3 on the third drive and completes: two suspensions, the three effects
\* in order, each exactly once.
\* ------------------------------------------------------------------------
\* the function an effect of Prints calls
PrintOf(p) == CHOOSE f \in {inc, double, count} : p \in {compute(f), effect(f)}

\* the calls of the functions of Prints during a drive, in order
Printed(journal) == SelectSeq(journal, LAMBDA e : e \in {Called(inc), Called(double), Called(count)})

Suspensions(journal) == Len(SelectSeq(journal, LAMBDA e : e = Paused))

C26_Interruptions ==
  scen.law = "interruptions" =>
    /\ Drives(runs[1]) <= 3
    /\ \A d \in 1..Drives(runs[1]) :
         /\ Printed(runs[1].journals[d]) = <<Called(PrintOf(scen.a.steps[d]))>>
         /\ Tag(runs[1].outcomes[d]) = IF d < 3 THEN "Suspended" ELSE "Completed"
         /\ Suspensions(runs[1].journals[d]) = IF d < 3 THEN 1 ELSE 0
    /\ Drives(runs[1]) = 3 => Ended(runs[1])

C26_Witness ==
  /\ scen.law = "interruptions"
  /\ scen.a.steps = <<compute(inc), counting, compute(double)>>
  /\ Tags(runs[1]) = <<"Suspended", "Suspended", "Completed">>
  /\ Printed(runs[1].journals[1] \o runs[1].journals[2] \o runs[1].journals[3])
       = <<Called(inc), Called(count), Called(double)>>

\* ------------------------------------------------------------------------
\* C27: forEach(l)(f), when every coroutine f(v) completes, completes with
\* the list of the values the coroutines f(v) produce, one for every
\* element v of l, in the order of l: doubling [1, 2, 3, 4] produces
\* [2, 4, 6, 8].
\* ------------------------------------------------------------------------
\* the value the coroutine f(v) completes with, for the functions whose
\* coroutines complete
ValueOf(f, v) == IF f = succeedDouble THEN Times2(v) ELSE IF f = keep THEN v ELSE undefined

C27_ForEach ==
  (scen.law = "forEach" /\ scen.f \in {succeedDouble, keep, const(counting)} /\ Drives(runs[1]) >= 1) =>
    /\ IsCompleted(runs[1].outcomes[1])
    /\ runs[1].outcomes[1].value.fst
         = ListOf([k \in 1..Len(scen.a.items) |-> ValueOf(scen.f, scen.a.items[k])])

\* ------------------------------------------------------------------------
\* C28: effects are immutable values that can be invoked again.  With
\* wrapped functions that are pure, invoking the same effect a second time
\* with the same state yields the outcome of the first time, and after any
\* number of drives of its continuations the effect the run began with,
\* invoked with the state it was first invoked with, yields the outcome it
\* yielded the first time.
\* ------------------------------------------------------------------------
\* the functions of the tests that read or write the variable numericVar
Impure(e) ==
  e.ev = "call" /\ e.f.fn \in {"count", "countGeq", "countLeq", "flaky", "hopeless"}

\* no function called by the run, or by an invocation repeated for it, is impure
Pure(r) ==
  \A d \in 1..Drives(r) :
    /\ \A i \in DOMAIN r.journals[d] : ~Impure(r.journals[d][i])
    /\ \A i \in DOMAIN r.twice[d].w.journal : ~Impure(r.twice[d].w.journal[i])
    /\ \A i \in DOMAIN r.replays[d].w.journal : ~Impure(r.replays[d].w.journal[i])

C28_WitnessStep ==
  /\ scen.law = "interruptions"
  /\ scen.a.steps = <<compute(inc), compute(double), compute(inc)>>
  /\ Pure(runs[1]) /\ Ended(runs[1])
  /\ passed = <<Num(1), Num(0), Num(1)>>
  /\ runs[1].replays[3].res = runs[1].outcomes[1]
  /\ IsSuspended(runs[1].replays[3].res)
  /\ IsCompleted(runs[1].twice[3].res)

\* ------------------------------------------------------------------------
\* C29: suspension happens only at suspend().  An effect built from
\* succeed, fail, compute, transform, effect, fromOption and fromEither
\* combined with map, bind, zip, repeat, repeatWhile, repeatUntil,
\* collectWhile, collectUntil and orElse, with no suspend, suspending or
\* wait inside, yields Suspended on no drive; and whenever an invocation
\* yields Suspended, suspend() was invoked during it.
\* ------------------------------------------------------------------------
\* c is built from the constructors and combinators above only, and so are
\* the coroutines that the functions given to its binds return
RECURSIVE SuspensionFree(_)
RECURSIVE SuspensionFreeFn(_)
SuspensionFree(c) ==
  CASE c.op \in {"succeed", "fail", "compute", "transform"} -> TRUE
    [] c.op = "map" -> SuspensionFree(c.c1)
    [] c.op = "join" ->
         /\ c.nested.op = "map"
         /\ SuspensionFree(c.nested.c1)
         /\ SuspensionFreeFn(c.nested.f)
    [] c.op = "orElse" -> SuspensionFree(c.attempting) /\ SuspensionFree(c.alternative)
    [] c.op \in {"repeatWhile", "repeatUntil", "collectWhile", "collectUntil"} ->
         SuspensionFree(c.procedure)
    [] OTHER -> FALSE

SuspensionFreeFn(f) ==
  CASE f.fn \in {"keep", "step", "succeedDouble", "zip_k1"} -> TRUE
    [] f.fn = "const" -> SuspensionFree(f.c)
    [] f.fn = "then" -> SuspensionFreeFn(f.f) /\ SuspensionFreeFn(f.g)
    [] f.fn = "zip_k" -> SuspensionFree(f.tail)
    [] f.fn \in {"repeat_k", "repeatWhile_k", "repeatUntil_k", "collectWhile_k", "collectUntil_k"} ->
         SuspensionFree(f.procedure)
    [] OTHER -> FALSE

C29_OnlyAtSuspend ==
  \A k \in DOMAIN runs : \A d \in 1..Drives(runs[k]) :
    /\ SuspensionFree(runs[k].original) => ~IsSuspended(runs[k].outcomes[d])
    /\ IsSuspended(runs[k].outcomes[d]) => SuspendedIn(runs[k], d)

C29_Witness ==
  /\ scen.law = "run"
  /\ scen.m = collectUntil(geq(1), bind_Coroutine(const(fromEither(right(Num(3)))), transform(inc)))
  /\ SuspensionFree(runs[1].original)
  /\ passed = <<Num(0)>>
  /\ Final(runs[1]) = right(Pair(ListOf(<<Num(3)>>), Num(1)))

C29_WitnessLoop ==
  /\ scen.law = "repeatWhile" /\ scen.m = stepping /\ scen.n = 1
  /\ SuspensionFree(runs[1].original)
  /\ passed = <<Num(0)>>
  /\ Tags(runs[1]) = <<"Completed">>

C29_WitnessOrElse ==
  /\ scen.law = "orElse" /\ scen.m = fromOption(None)
  /\ SuspensionFree(runs[1].original)
  /\ Drives(runs[1]) = 1
  /\ Final(runs[1]) = right(Pair(Num(3), passed[1]))

\* ------------------------------------------------------------------------
\* C30: unsafeRunGetValue(effect, s) returns Pair(a, s') only when the
\* effect completes on that single drive, with the a and s' it completed
\* with; when the effect suspends it raises an Error and returns no
\* continuation; when the effect fails it raises what unsafeRun raises.
\* The runs are the effect under unsafeRunGetValue and under unsafeRun.
\* ------------------------------------------------------------------------
C30_GetValue ==
  (scen.law = "getValue" /\ Extracted(runs[1])) =>
    LET outcome == runs[1].outcomes[1]
        got == runs[1].result
    IN  /\ Drives(runs[1]) = 1
        /\ runs[1].pc = "returned" <=> IsCompleted(outcome)
        /\ IsCompleted(outcome) =>
             /\ got.value = Pair(outcome.value.fst, outcome.value.snd)
             /\ right(got.value) = runs[2].outcomes[1]
        /\ IsSuspended(outcome) =>
             /\ runs[1].pc = "raised"
             /\ got.value = Error(<<>>)
        /\ (IsFailed(outcome) \/ IsThrown(outcome)) =>
             /\ runs[1].pc = "raised"
             /\ runs[2].pc = "thrown"
             /\ got = runs[2].result

C30_Witness ==
  /\ scen.law = "getValue" /\ scen.m = suspending(transform(double))
  /\ runs[1].pc = "raised"
  /\ runs[1].result.value = Error(<<>>)
  /\ runs[2].pc = "done"

C30_WitnessReturned ==
  /\ scen.law = "getValue" /\ scen.m = compute(inc)
  /\ passed = <<Num(1)>>
  /\ runs[1].pc = "returned"
  /\ runs[1].result.value = Pair(Num(2), Num(1))

C30_WitnessFailed ==
  /\ scen.law = "getValue" /\ scen.m = fail(Str("boom"))
  /\ runs[1].pc = "raised"
  /\ runs[1].result.value = Error(<<"Coroutine failed with: ", "boom">>)

\* ------------------------------------------------------------------------
\* C31: fromEither(left(e)) yields Failed(e) for every state, and
\* fromEither(right(v)) yields Completed(v, s), the state unchanged, for
\* every state s.
\* ------------------------------------------------------------------------
C31_FromEither ==
  (scen.law = "fromEither" /\ Drives(runs[1]) >= 1) =>
    /\ Drives(runs[1]) = 1
    /\ scen.a.kind = "left" => runs[1].outcomes[1] = left(left(scen.a.value))
    /\ scen.a.kind = "right" => runs[1].outcomes[1] = right(Pair(scen.a.value, passed[1]))

C31_Witness ==
  /\ scen.law = "fromEither" /\ scen.a = left(Str("Error!"))
  /\ passed = <<Num(1)>>
  /\ runs[1].pc = "thrown"
  /\ runs[1].outcomes[1] = left(left(Str("Error!")))

C31_WitnessRight ==
  /\ scen.law = "fromEither" /\ scen.a = right(Num(1))
  /\ passed = <<Num(0)>>
  /\ runs[1].result = right(Pair(Num(1), Num(0)))

\* ------------------------------------------------------------------------
\* C32: a resumed continuation runs against the state the driver passes on
\* that drive, not against the snapshot in the Suspended outcome.  After
\* transform(s => s + 1) and a suspension, the snapshot is s1 + 1, unsafeRun
\* returns the continuation alone, and the effect after the suspension reads
\* the state s2 of the second drive, whatever the snapshot was.
\* ------------------------------------------------------------------------
\* what the effect q completes with on the state s
CompletedOn(q, s) ==
  CASE q = compute(double) -> right(Pair(Times2(s), s))
    [] q = transform(double) -> right(Pair(Times2(s), Times2(s)))
    [] q = compute(inc) -> right(Pair(Plus1(s), s))

C32_ResumeOnDriverState ==
  (scen.law = "resume" /\ Drives(runs[1]) >= 1) =>
    LET r == runs[1]
        first == r.outcomes[1]
    IN  /\ IsSuspended(first)
        /\ Snapshot(first) = Plus1(passed[1])
        /\ Drives(r) = 1 => r.result = left(first.value.value.snd) /\ r.program = r.result.value
        /\ Drives(r) >= 2 =>
             /\ r.outcomes[2] = CompletedOn(scen.a, passed[2])
             /\ r.pc = "done"

C32_Witness ==
  /\ scen.law = "resume" /\ scen.a = compute(double)
  /\ passed = <<Num(1), Num(0)>>
  /\ Snapshot(runs[1].outcomes[1]) = Num(2)
  /\ runs[1].result = right(Pair(Num(0), Num(0)))

\* ------------------------------------------------------------------------
\* C33: exactly-once execution across suspension.  In a bind chain a step
\* that ran on a drive before a suspension point is not executed again when
\* the continuation is resumed; driven to completion, each step of the
\* chain has executed exactly once, in program order.
\* ------------------------------------------------------------------------
\* the calls of the functions of Prints over all drives so far, in order
RECURSIVE PrintedUpTo(_, _)
PrintedUpTo(r, d) == IF d = 0 THEN <<>> ELSE PrintedUpTo(r, d - 1) \o Printed(r.journals[d])

\* the steps of the chain that lie before its k-th suspension point
StepsBefore(flags, k) ==
  IF flags[1] /\ k = 1 THEN 1 ELSE 2

Pauses(flags) == Cardinality({i \in 1..2 : flags[i]})

C33_ExactlyOnce ==
  scen.law = "chain" =>
    LET r == runs[1]
        steps == [i \in 1..3 |-> Called(PrintOf(scen.a.steps[i]))]
        pauses == Pauses(scen.a.flags)
    IN  /\ Drives(r) <= pauses + 1
        /\ \A d \in 1..Drives(r) :
             PrintedUpTo(r, d) = SubSeq(steps, 1, IF d = pauses + 1 THEN 3
                                                  ELSE StepsBefore(scen.a.flags, d))
        /\ Drives(r) = pauses + 1 => r.pc = "done"

C33_Witness ==
  /\ scen.law = "chain"
  /\ scen.a.steps = <<compute(inc), counting, compute(double)>>
  /\ scen.a.flags = <<FALSE, TRUE>>
  /\ Tags(runs[1]) = <<"Suspended", "Completed">>
  /\ Printed(runs[1].journals[1]) = <<Called(inc), Called(count)>>
  /\ Printed(runs[1].journals[2]) = <<Called(double)>>

C33_WitnessTwice ==
  /\ scen.law = "chain"
  /\ scen.a.steps = <<counting, counting, counting>>
  /\ scen.a.flags = <<TRUE, TRUE>>
  /\ runs[1].pc = "done"
  /\ runs[1].world.counter = 3

\* ------------------------------------------------------------------------
\* C34: bind adds no suspension points of its own.  When m suspends i times
\* before completing and f(a) suspends j times before completing,
\* bind(m, f) suspends exactly i + j times before completing; zip(m, q)
\* likewise, and repeat(n, m) suspends n * i times.  The runs are the
\* combination, m and f(a) (for repeat: m twice), driven side by side.
\* ------------------------------------------------------------------------
\* the number of drives on which the run was suspended
SuspensionsOf(r) == Cardinality({d \in 1..Drives(r) : IsSuspended(r.outcomes[d])})

\* the suspensions of the combination, given those of its parts
Expected(x, i, j) == IF x.law = "repeatCount" THEN x.n * i ELSE i + j

C34_NoExtraSuspension ==
  (/\ scen.law \in {"bindCount", "zipCount", "repeatCount"}
   /\ runs[2].pc = "done" /\ runs[3].pc = "done") =>
    LET whole == runs[1]
        total == Expected(scen, SuspensionsOf(runs[2]), SuspensionsOf(runs[3]))
    IN  /\ Drives(whole) <= total + 1
        /\ \A d \in 1..Drives(whole) :
             Tag(whole.outcomes[d]) = IF d <= total THEN "Suspended" ELSE "Completed"

C34_Witness ==
  /\ scen.law = "bindCount" /\ scen.m = wait(1) /\ scen.a = suspending(counting)
  /\ SuspensionsOf(runs[2]) = 1 /\ SuspensionsOf(runs[3]) = 1
  /\ Tags(runs[1]) = <<"Suspended", "Suspended", "Completed">>

C34_WitnessZip ==
  /\ scen.law = "zipCount" /\ scen.m = wait(2) /\ scen.a = compute(inc)
  /\ runs[3].pc = "done"
  /\ Tags(runs[1]) = <<"Suspended", "Suspended", "Completed">>

C34_WitnessRepeat ==
  /\ scen.law = "repeatCount" /\ scen.m = suspending(counting) /\ scen.n = 2
  /\ Tags(runs[2]) = <<"Suspended", "Completed">>
  /\ Tags(runs[1]) = <<"Suspended", "Suspended", "Completed">>
  /\ runs[1].world.counter = 2

C35_WitnessTie ==
  /\ scen.law = "raceWaits" /\ scen.a.ticks = <<2, 2>>
  /\ Drives(runs[1]) = 1
  /\ runs[1].result.value.fst = left(Unit)

\* ------------------------------------------------------------------------
\* C36: the Completed outcome of race carries the state that was passed to
\* the invocation of race, not the state its winning side completed with: a
\* state change made by the winner is absent from the state race returns.
\* The runs are the race and its winner on its own; the winner on its own
\* is compared when it was driven with the state of the race on every
\* drive, as its continuations are inside the race.
\* ------------------------------------------------------------------------
C36_RaceKeepsState ==
  (/\ scen.law = "raceFrame" /\ Drives(runs[1]) >= 1 /\ runs[2].pc = "done"
   /\ \A d \in 1..Drives(runs[2]) : passed[d] = passed[1]) =>
    LET won == Final(runs[2]).value
    IN  /\ won.snd = Plus1(passed[Drives(runs[2])])
        /\ Drives(runs[1]) = 1
        /\ runs[1].outcomes[1] =
             right(Pair(IF scen.n = 1 THEN left(won.fst) ELSE right(won.fst), passed[1]))
        /\ runs[1].outcomes[1].value.snd # won.snd

C36_Witness ==
  /\ scen.law = "raceFrame" /\ scen.m = transform(inc) /\ scen.a = wait(1)
  /\ passed = <<Num(1)>>
  /\ Final(runs[2]) = right(Pair(Num(2), Num(2)))
  /\ Final(runs[1]) = right(Pair(left(Num(2)), Num(1)))

C36_WitnessSecond ==
  /\ scen.law = "raceFrame" /\ scen.m = wait(2)
  /\ scen.a = bind_Coroutine(const(transform(inc)), wait(1))
  /\ runs[2].pc = "done"
  /\ passed = <<Num(1), Num(1)>>
  /\ Tags(runs[2]) = <<"Suspended", "Completed">>
  /\ Tags(runs[1]) = <<"Completed">>
  /\ Final(runs[1]) = right(Pair(right(Num(2)), Num(1)))

\* ------------------------------------------------------------------------
\* C37: the throw of Error("UnsupportedOperation") at the end of race is
\* unreachable.  For every combination of the outcomes of the two sides
\* (Completed, Suspended, Failed) one of the earlier branches returns, and
\* the branches "only the first / second Coroutine is suspended" are never
\* taken.  The runs are the race and its sides on their own; the sides'
\* outcomes on drive d are those of round d inside the race, as long as
\* both sides were suspended on every round before.
\* ------------------------------------------------------------------------
Returning ==
  { "first has failed", "second has failed", "only the first one is done",
    "only the second one is done", "both are done", "both are suspended" }

Unsupported(r) ==
  r.result.kind = "throw" /\ r.result.value = Error(<<"UnsupportedOperation">>)

C37_UnsupportedUnreachable ==
  /\ \A k \in DOMAIN runs : ~Unsupported(runs[k])
  /\ scen.law = "race" =>
       \A d \in 1..Min(Drives(runs[2]), Drives(runs[3])) :
         (\A e \in 1..(d - 1) :
            IsSuspended(runs[2].outcomes[e]) /\ IsSuspended(runs[3].outcomes[e])) =>
           race_branch(runs[2].outcomes[d], runs[3].outcomes[d]) \in Returning

C37_Witness ==
  /\ scen.law = "race" /\ scen.m = after(2, "A") /\ scen.a = failing(1, "fb")
  /\ Drives(runs[3]) = 2
  /\ race_branch(runs[2].outcomes[1], runs[3].outcomes[1]) = "both are suspended"
  /\ race_branch(runs[2].outcomes[2], runs[3].outcomes[2]) = "second has failed"
  /\ Final(runs[1]) = left(left(Str("fb")))

C37_WitnessAll ==
  /\ scen.law = "race" /\ Drives(runs[1]) = 1
  /\ {race_branch(runs[2].outcomes[1], runs[3].outcomes[1])} \subseteq Returning
  /\ \A b \in Returning :
       \E x \in RaceExperiments : \E s \in States :
         race_branch(invoke(x.m, s, World0).res, invoke(x.a, s, World0).res) = b

\* ------------------------------------------------------------------------
\* C38: sequence(l), and forEach built on it, invokes every coroutine of l
\* with the state that was passed to sequence: what an element does in the
\* sequence is what it does on its own with that state, whatever the
\* elements before it did to the state, and the completed state is the
\* input state.  It stops at the first element that fails, yielding that
\* failure without invoking the later elements, and when an element yields
\* Suspended it raises the native Error("TODO") instead of yielding a
\* Suspended or Failed outcome.
\* ------------------------------------------------------------------------
CallsIn(journal) == SelectSeq(journal, LAMBDA e : e.ev = "call")

\* the first element of the sequence that does not complete on its own with
\* the state passed to the sequence, or the length of the list plus one
Stop(n) ==
  IF \E i \in 1..n : ~IsCompleted(runs[1 + i].outcomes[1])
  THEN CHOOSE i \in 1..n :
         /\ ~IsCompleted(runs[1 + i].outcomes[1])
         /\ \A j \in 1..(i - 1) : IsCompleted(runs[1 + j].outcomes[1])
  ELSE n + 1

RECURSIVE CallsUpTo(_)
CallsUpTo(i) == IF i = 0 THEN <<>> ELSE CallsUpTo(i - 1) \o CallsIn(runs[1 + i].journals[1])

C38_Sequence ==
  /\ (scen.law = "sequence" /\ Drives(runs[1]) >= 1) =>
       LET n == Len(scen.a.items)
           stop == Stop(n)
           seen == runs[1].outcomes[1]
       IN  /\ CallsIn(runs[1].journals[1]) = CallsUpTo(Min(stop, n))
           /\ stop = n + 1 => (IsCompleted(seen) /\ seen.value.snd = passed[1])
           /\ (stop <= n /\ IsFailed(runs[1 + stop].outcomes[1])) =>
                seen = runs[1 + stop].outcomes[1]
           /\ (stop <= n /\ IsSuspended(runs[1 + stop].outcomes[1])) =>
                (seen = [kind |-> "throw", value |-> Error(<<"TODO">>)] /\ runs[1].pc = "thrown")
  /\ (scen.law = "forEach" /\ Drives(runs[1]) >= 1 /\ scen.a.items # <<>>) =>
       LET seen == runs[1].outcomes[1]
       IN  /\ scen.f = step => (IsCompleted(seen) /\ seen.value.snd = passed[1])
           /\ scen.f = const(fail(Str("no"))) => seen = left(left(Str("no")))
           /\ scen.f = pause => seen = [kind |-> "throw", value |-> Error(<<"TODO">>)]

\* the second element reads the state 0 after the first stepped it, and the
\* sequence completes with the state 0
C38_Witness ==
  /\ scen.law = "sequence"
  /\ scen.a.items = <<transform(inc), compute(incBelow(1)), counting>>
  /\ passed = <<Num(0)>>
  /\ runs[2].outcomes[1] = right(Pair(Num(1), Num(1)))
  /\ runs[3].outcomes[1] = right(Pair(Num(1), Num(0)))
  /\ IsCompleted(runs[1].outcomes[1]) /\ runs[1].outcomes[1].value.snd = Num(0)
  /\ SelectSeq(runs[1].journals[1], LAMBDA e : e \in {Called(inc), Called(incBelow(1)), Called(count)})
       = <<Called(inc), Called(incBelow(1)), Called(count)>>

\* the sequence stops at the element that fails
C38_WitnessFailed ==
  /\ scen.law = "sequence"
  /\ scen.a.items = <<counting, fail(Str("no")), counting>>
  /\ Drives(runs[1]) = 1
  /\ runs[1].outcomes[1] = left(left(Str("no")))
  /\ CallsOf(count, runs[1], 1) = 1 /\ CallsOf(count, runs[4], 1) = 1

\* the sequence raises at the element that suspends
C38_WitnessSuspended ==
  /\ scen.law = "sequence"
  /\ scen.a.items = <<counting, suspend, counting>>
  /\ Drives(runs[1]) = 1
  /\ runs[1].pc = "thrown"
  /\ runs[1].result = [kind |-> "throw", value |-> Error(<<"TODO">>)]
  /\ CallsOf(count, runs[1], 1) = 1 /\ CallsOf(count, runs[4], 1) = 1

C38_WitnessForEach ==
  /\ scen.law = "forEach" /\ scen.f = step /\ Len(scen.a.items) = 2
  /\ passed = <<Num(0)>>
  /\ IsCompleted(runs[1].outcomes[1]) /\ runs[1].outcomes[1].value.snd = Num(0)

====
